---------------------------- MODULE Spec2Model ----------------------------
(***************************************************************************)
(* State-machine model of the Gallery backend (account + gallery apps).    *)
(*                                                                         *)
(* The persistent state is the five database tables (User, ImageGallery,   *)
(* Image, VideoGallery, Video), the token tables of the JWT library        *)
(* (outstanding and blacklisted refresh tokens), the filesystem below      *)
(* media/ (directories and files) and a clock.  Every request handler is   *)
(* an operator that maps the current state and a request to an outcome     *)
(* and the new value of every table it writes; the action of the handler   *)
(* applies that operator to a request drawn from a small input set.        *)
(*                                                                         *)
(* Paths are sequences of path components: media/u/image/g is              *)
(* <<"media", u, "image", g>>.  A gallery name may hold a path separator   *)
(* and then spans several components; a path as the code writes it keeps   *)
(* its "." components and the empty component of a "/" at its end, and     *)
(* Resolve gives the location it names.  dirs and files hold locations.    *)
(* The usernames of the input sets are single components, and no name of   *)
(* the input sets holds "..".                                              *)
(***************************************************************************)
EXTENDS Integers, Sequences, FiniteSets, TLC

VARIABLES
    User,           \* rows of table User
    ImageGallery,   \* rows of table ImageGallery
    Image,          \* rows of table Image
    VideoGallery,   \* rows of table VideoGallery
    Video,          \* rows of table Video
    autoid,         \* last auto-increment id handed out, per table
    dirs,           \* directories that exist (paths)
    files,          \* regular files that exist (paths)
    outstanding,    \* refresh tokens issued so far
    blacklisted,    \* jti of the refresh tokens on the denylist
    jti,            \* number of token ids drawn so far
    now,            \* the clock
    clock,          \* per media table, the calls of timezone.now() for a file name
    signedOut,      \* refresh tokens for which sign_out has answered success
    inflight,       \* per worker, the request it is in the middle of
    overlapped,     \* a request has begun while another was in the middle
    begun,          \* requests that a worker has taken up and not answered at once
    last            \* the last request handled: operation and outcome

vars == <<User, ImageGallery, Image, VideoGallery, Video, autoid, dirs, files,
          outstanding, blacklisted, jti, now, clock, signedOut, inflight,
          overlapped, begun, last>>

dbVars == <<User, ImageGallery, Image, VideoGallery, Video, autoid>>
fsVars == <<dirs, files>>
tokenVars == <<outstanding, blacklisted, jti>>
galleryTables == <<ImageGallery, Image, VideoGallery, Video>>
raceVars == <<inflight, overlapped, begun>>
quietVars == <<inflight, overlapped, begun, clock>>

\* The workers that serve requests, and a worker between two requests.
Workers == {"w1", "w2"}
Idle == [op |-> "idle"]
NoRace ==
    /\ inflight = [w \in Workers |-> Idle] /\ overlapped = FALSE /\ begun = 0
    /\ clock = [t \in {"Image", "Video"} |-> 0]

----------------------------------------------------------------------------
(* Bounds of the model.                                                    *)

MaxUsers == 2          \* User rows created in one run
MaxTokens == 2         \* signins (refresh tokens issued) in one run
MaxTime == 2           \* clock ticks in one run
MaxGalleries == 2      \* gallery rows created in one run, over both kinds
MaxMedia == 1          \* media rows created in one run (gallery runs)
MaxUploadRows == 12    \* media rows created in one run (upload runs)
MaxUploadDeletes == 1  \* media rows deleted one by one (upload runs)

----------------------------------------------------------------------------
(* Program constants.                                                      *)

DIRECTORY_PATH == <<"media">>
MEDIA_URL == <<"media">>
MAX_LIMIT == 10
MAX_SIZE_IMAGE == 2 * 1024 * 1024
MAX_SIZE_VIDEO == 10 * 1024 * 1024
VIDEO_FORMAT == ".mp4"

\* Lifetimes of the tokens, in clock ticks (the library's settings).
REFRESH_TOKEN_LIFETIME == 2

----------------------------------------------------------------------------
(* Input sets.  REGEX_USERNAME and REGEX_PASSWORD give, for each sample    *)
(* string, whether the pattern of account/constants.py matches it.         *)

Usernames == {"alice_01", "bob@2023", "carol#77", "alice001"}
REGEX_USERNAME == [s \in Usernames |-> s \in {"alice_01", "bob@2023", "carol#77"}]
ANY_ISALPHA == [s \in Usernames |-> TRUE]

Passwords == {"Passw0rd!", "S3cret+Key", "password"}
REGEX_PASSWORD == [s \in Passwords |-> s \in {"Passw0rd!", "S3cret+Key"}]

Emails == {"a@x.io", "b@x.io", "c@x.io"}

\* Contacts a signup may carry, and whether REGEX["contact"] matches each.
Contacts == {"1234567890", "12a456789", "12a4567890", "123456789", "12345678901"}
REGEX_contact == [s \in Contacts |-> s \in {"1234567890", "123456789", "12345678901"}]
MIN_LENGTH_contact == 10
MAX_LENGTH_contact == 10

\* Tokens are known by their ids (jti); NoToken is the empty token field.
NoToken == 0

----------------------------------------------------------------------------
(* The filesystem calls the handlers make.  Each returns the outcome (an   *)
(* exception name or "ok") and the new directories and files.  A path is   *)
(* given as the program writes it: "." and an empty last component (the    *)
(* path ends in "/") are components of it; dirs and files hold the places  *)
(* the paths lead to.                                                      *)

IsPrefix(p, q) == Len(p) <= Len(q) /\ SubSeq(q, 1, Len(p)) = p

Prefixes(p) == {SubSeq(p, 1, n) : n \in 1..Len(p)}

Under(p, S) == {q \in S : IsPrefix(p, q)}

IsEmptyDir(p, D, F) == Under(p, D) = {p} /\ Under(p, F) = {}

Reroot(old, new, q) == new \o SubSeq(q, Len(old) + 1, Len(q))

Min(S) == CHOOSE x \in S : \A y \in S : x <= y

Max(S) == CHOOSE x \in S : \A y \in S : x >= y

\* The positions of the character c in the string s, and the last of them
\* (0 when there is none).
Positions(s, c) == {i \in 1..Len(s) : SubSeq(s, i, i) = c}

\* str.rfind(c): the end of the string is searched first
rfind(s, c) ==
    LET from == IF Len(s) > 16 THEN Len(s) - 15 ELSE 1
        late == Positions(SubSeq(s, from, Len(s)), c)
        all == Positions(s, c)
    IN  IF late # {} THEN from - 1 + Max(late)
        ELSE IF all = {} THEN 0 ELSE Max(all)

\* The components of the path s: the parts between the "/", the empty ones
\* dropped but for the last (s ends in "/")
RECURSIVE Components(_)
Components(s) ==
    LET seps == Positions(s, "/")
    IN  IF seps = {} THEN <<s>>
        ELSE IF Min(seps) = 1 THEN Components(SubSeq(s, 2, Len(s)))
        ELSE <<SubSeq(s, 1, Min(seps) - 1)>>
               \o Components(SubSeq(s, Min(seps) + 1, Len(s)))

\* Where path leads: "." stays in the directory
Resolve(path) == SelectSeq(path, LAMBDA c : c \notin {".", ""})

\* The last component of path is "."
LastDot(path) ==
    \E n \in 1..Len(path) :
        path[n] = "." /\ \A m \in (n + 1)..Len(path) : path[m] = ""

\* path ends in "/"
Slash(path) == Len(path) > 0 /\ path[Len(path)] = ""

\* The walk to the directory that holds the last component of path: the
\* fault at the first component on the way that is missing (ENOENT) or is a
\* regular file (ENOTDIR), "ok" when every component is a directory.
Lookup(path, D, F) ==
    LET p == Resolve(path)
        bad == {n \in 1..(IF LastDot(path) THEN Len(p) ELSE Len(p) - 1) :
                  SubSeq(p, 1, n) \notin D}
    IN  IF bad = {} THEN "ok"
        ELSE IF SubSeq(p, 1, Min(bad)) \in F THEN "NotADirectoryError"
        ELSE "FileNotFoundError"

\* os.stat(path), os.lstat(path) and os.open(path, O_RDONLY): the fault, or
\* "ok"
stat(path, D, F) ==
    IF Lookup(path, D, F) # "ok" THEN Lookup(path, D, F)
    ELSE IF Resolve(path) \notin D \cup F THEN "FileNotFoundError"
    ELSE IF Resolve(path) \in F /\ Slash(path) THEN "NotADirectoryError"
    ELSE "ok"

\* os.path.exists(path)
exists(path, D, F) == stat(path, D, F) = "ok"

\* os.path.isdir(path)
isdir(path, D, F) == stat(path, D, F) = "ok" /\ Resolve(path) \in D

\* os.mkdir(path)
mkdir(path, D, F) ==
    IF Lookup(path, D, F) # "ok"
    THEN [out |-> Lookup(path, D, F), dirs |-> D, files |-> F]
    ELSE IF LastDot(path) \/ Resolve(path) \in D \cup F
    THEN [out |-> "FileExistsError", dirs |-> D, files |-> F]
    ELSE [out |-> "ok", dirs |-> D \cup {Resolve(path)}, files |-> F]

\* os.rmdir(path): "." is refused (EINVAL), and a directory that holds
\* anything (ENOTEMPTY)
rmdir(path, D, F) ==
    LET same(out) == [out |-> out, dirs |-> D, files |-> F]
    IN  IF Lookup(path, D, F) # "ok" THEN same(Lookup(path, D, F))
        ELSE IF LastDot(path) THEN same("OSError")
        ELSE IF Resolve(path) \in F THEN same("NotADirectoryError")
        ELSE IF Resolve(path) \notin D THEN same("FileNotFoundError")
        ELSE IF ~IsEmptyDir(Resolve(path), D, F) THEN same("OSError")
        ELSE [out |-> "ok", dirs |-> D \ {Resolve(path)}, files |-> F]

\* os.unlink(path)
unlink(path, D, F) ==
    LET same(out) == [out |-> out, dirs |-> D, files |-> F]
    IN  IF Lookup(path, D, F) # "ok" THEN same(Lookup(path, D, F))
        ELSE IF Resolve(path) \in D THEN same("IsADirectoryError")
        ELSE IF Resolve(path) \notin F THEN same("FileNotFoundError")
        ELSE IF Slash(path) THEN same("NotADirectoryError")
        ELSE [out |-> "ok", dirs |-> D, files |-> F \ {Resolve(path)}]

\* os.scandir of the directory at: what it holds, each entry with the kind
\* the listing gives it
scandir(at, D, F) ==
    {[name |-> q[Len(q)], is_dir |-> q \in D] :
        q \in {q \in D \cup F : Len(q) = Len(at) + 1 /\ IsPrefix(at, q)}}

\* posixpath.split(name) as os.makedirs takes it: when name ends in "/",
\* the head is split again
split_head(name) ==
    IF Slash(name) THEN SubSeq(name, 1, Len(name) - 2)
    ELSE SubSeq(name, 1, Len(name) - 1)

split_tail(name) ==
    IF Slash(name)
    THEN (IF Len(name) > 1 THEN name[Len(name) - 1] ELSE "")
    ELSE name[Len(name)]

\* os.makedirs(name, exist_ok) is run call by call.  What a run holds: the
\* names whose os.mkdir is to come, the innermost call last, and the call
\* that is next for the last of them: os.path.exists(head), os.mkdir(name)
\* or, past a fault of os.mkdir, os.path.isdir(name).
makedirs_enter(name) ==
    IF split_head(name) # <<>> /\ split_tail(name) # "" THEN "exists" ELSE "mkdir"

makedirs_begin(name, exist_ok) ==
    [pc |-> makedirs_enter(name), stack |-> <<name>>, exist_ok |-> exist_ok,
     fault |-> "ok"]

\* The innermost call of the run mk returns res on the directories D and
\* the files F.  The caller lets FileExistsError pass, returns when its own
\* tail is "." and goes on to its os.mkdir otherwise; any other fault ends
\* every call.
RECURSIVE makedirs_return(_, _, _, _)
makedirs_return(mk, res, D, F) ==
    IF Len(mk.stack) = 1
    THEN [out |-> res, mk |-> mk, dirs |-> D, files |-> F]
    ELSE IF res \notin {"ok", "FileExistsError"}
    THEN makedirs_return([mk EXCEPT !.stack = SubSeq(@, 1, Len(@) - 1)], res, D, F)
    ELSE IF split_tail(mk.stack[Len(mk.stack) - 1]) = "."
    THEN makedirs_return([mk EXCEPT !.stack = SubSeq(@, 1, Len(@) - 1)], "ok", D, F)
    ELSE [out |-> "go",
          mk |-> [mk EXCEPT !.stack = SubSeq(@, 1, Len(@) - 1), !.pc = "mkdir",
                            !.fault = "ok"],
          dirs |-> D, files |-> F]

\* One call of the run mk: out is "go" while calls are to come, and the
\* outcome of os.makedirs at the end.
makedirs_call(mk, D, F) ==
    LET name == mk.stack[Len(mk.stack)]
        made(r) ==
            IF r.out = "ok" THEN makedirs_return(mk, "ok", r.dirs, r.files)
            ELSE IF mk.exist_ok
            THEN [out |-> "go", mk |-> [mk EXCEPT !.pc = "isdir", !.fault = r.out],
                  dirs |-> D, files |-> F]
            ELSE makedirs_return(mk, r.out, D, F)
    IN  CASE mk.pc = "exists" ->
               IF exists(split_head(name), D, F)
               THEN [out |-> "go", mk |-> [mk EXCEPT !.pc = "mkdir"],
                     dirs |-> D, files |-> F]
               ELSE [out |-> "go",
                     mk |-> [mk EXCEPT !.stack = Append(@, split_head(name)),
                                       !.pc = makedirs_enter(split_head(name))],
                     dirs |-> D, files |-> F]
          [] mk.pc = "mkdir" -> made(mkdir(name, D, F))
          [] mk.pc = "isdir" ->
               makedirs_return(mk, IF isdir(name, D, F) THEN "ok" ELSE mk.fault, D, F)

\* The calls of a run, one after the other.
RECURSIVE makedirs_run(_, _, _)
makedirs_run(mk, D, F) ==
    LET next(r) ==
            IF r.out = "go" THEN makedirs_run(r.mk, r.dirs, r.files)
            ELSE [out |-> r.out, dirs |-> r.dirs, files |-> r.files]
    IN  next(makedirs_call(mk, D, F))

\* os.makedirs(path, exist_ok)
makedirs(path, exist_ok, D, F) == makedirs_run(makedirs_begin(path, exist_ok), D, F)

\* os.makedirs(path, exist_ok=False)
Makedirs(path, D, F) == makedirs(path, FALSE, D, F)

\* os.rename(old, new) on Linux: the directories that hold old and new are
\* looked up, then old; "." is not renamed (EBUSY), a regular file takes no
\* "/" at the end, a directory does not move below itself (EINVAL) nor onto
\* a directory that is not empty (ENOTEMPTY), a directory and a regular
\* file do not replace one another
Rename(old, new, D, F) ==
    LET same(out) == [out |-> out, dirs |-> D, files |-> F]
        from == Resolve(old)
        to == Resolve(new)
    IN  IF Lookup(old, D, F) # "ok" THEN same(Lookup(old, D, F))
        ELSE IF Lookup(new, D, F) # "ok" THEN same(Lookup(new, D, F))
        ELSE IF LastDot(old) \/ LastDot(new) THEN same("OSError")
        ELSE IF from \notin D \cup F THEN same("FileNotFoundError")
        ELSE IF from \in F /\ (Slash(old) \/ Slash(new)) THEN same("NotADirectoryError")
        ELSE IF from = to THEN same("ok")
        ELSE IF from \in D /\ IsPrefix(from, to) THEN same("OSError")
        ELSE IF to \in D /\ IsPrefix(to, from) THEN same("OSError")
        ELSE IF from \in D /\ to \in F THEN same("NotADirectoryError")
        ELSE IF from \in F /\ to \in D THEN same("IsADirectoryError")
        ELSE IF to \in D /\ ~IsEmptyDir(to, D, F) THEN same("OSError")
        ELSE [out |-> "ok",
              dirs |-> ((D \ Under(from, D)) \ {to})
                         \cup {Reroot(from, to, q) : q \in Under(from, D)},
              files |-> ((F \ Under(from, F)) \ {to})
                          \cup {Reroot(from, to, q) : q \in Under(from, F)}]

\* A directory or a file that is no more: what a descriptor or a stat
\* result refers to once it has been removed.  A descriptor keeps the inode
\* of what it has open; the inode of what a stat result refers to is free
\* once that is removed, and the filesystem may give it to a directory or a
\* file made afterwards.
Gone == <<>>

\* The place ref refers to, once old has been renamed to new (old is Gone
\* when nothing was renamed) and the directories are D and the files F: it
\* moves with a rename, and what a rename has replaced or a call has removed
\* is gone.
Follow(ref, old, new, D, F) ==
    IF ref = Gone THEN Gone
    ELSE IF old # Gone /\ IsPrefix(old, ref) THEN Reroot(old, new, ref)
    ELSE IF (old # Gone /\ ref = new) \/ ref \notin D \cup F THEN Gone
    ELSE ref

\* shutil.rmtree(path) is run call by call.  What a run holds: the call
\* that is next, the result orig of the last os.lstat, the directories it
\* has open (each with the place at where it is by now, the name it was
\* opened by, whether what was opened is a directory and the entries of its
\* listing that are still to come, the innermost last) and the entry the
\* next call is for.  fresh holds, while
\* os.open is next and what os.lstat saw has been removed, the directories
\* and files made since: one of them may have the inode that os.lstat saw.
rmtree_begin(path) ==
    [pc |-> "lstat", path |-> path, orig |-> Gone, fresh |-> {}, stack |-> <<>>,
     entry |-> ""]

\* An entry of the directory that the run rm has open last: the path the
\* call takes, and the fault of a call on a directory that is gone.
rmtree_entry(rm, name) == rm.stack[Len(rm.stack)].at \o <<name>>

rmtree_gone(rm) == rm.stack # <<>> /\ rm.stack[Len(rm.stack)].at = Gone

\* The path of the os.lstat and the os.open that the run rm is at: the path
\* rmtree was called for, or the entry of the directory opened last.
rmtree_path(rm) == IF rm.stack = <<>> THEN rm.path ELSE rmtree_entry(rm, rm.entry)

\* os.lstat of path (of the entry: entry.stat) in the run rm: a directory
\* is opened next, anything else unlinked
rmtree_lstat(rm, path, D, F) ==
    LET fault == IF rmtree_gone(rm) THEN "FileNotFoundError" ELSE stat(path, D, F)
    IN  IF fault # "ok"
        THEN [out |-> fault, rm |-> rm, dirs |-> D, files |-> F]
        ELSE IF rm.stack # <<>> /\ Resolve(path) \notin D
        THEN [out |-> "go", rm |-> [rm EXCEPT !.pc = "unlink"], dirs |-> D, files |-> F]
        ELSE [out |-> "go", rm |-> [rm EXCEPT !.pc = "open", !.orig = Resolve(path)],
              dirs |-> D, files |-> F]

\* What os.lstat saw has been removed and what is at path now was made
\* afterwards: the filesystem may have given it the inode that os.lstat saw
\* (reused), or another.
rmtree_reused(rm, path) ==
    IF rm.pc = "open" /\ rm.orig = Gone /\ Resolve(path) \in rm.fresh
    THEN BOOLEAN ELSE {FALSE}

\* os.open of path in the run rm, and os.fstat of the descriptor.
\* os.path.samestat compares st_ino and st_dev: the run goes on when what was
\* opened is what os.lstat saw, and also when it was made after that was
\* removed and has its inode (reused); it ends with an OSError otherwise.
rmtree_open(rm, path, reused, D, F) ==
    LET fault == IF rmtree_gone(rm) THEN "FileNotFoundError" ELSE stat(path, D, F)
        samestat == \/ rm.orig = Resolve(path)
                    \/ reused /\ rm.orig = Gone /\ Resolve(path) \in rm.fresh
    IN  IF fault # "ok"
        THEN [out |-> fault, rm |-> rm, dirs |-> D, files |-> F]
        ELSE IF ~samestat
        THEN [out |-> "OSError", rm |-> rm, dirs |-> D, files |-> F]
        ELSE [out |-> "go",
              rm |-> [rm EXCEPT !.pc = "scandir", !.orig = Gone, !.fresh = {},
                                !.stack = Append(@, [at |-> Resolve(path),
                                                     name |-> rm.entry,
                                                     is_dir |-> Resolve(path) \in D,
                                                     entries |-> {}])],
              dirs |-> D, files |-> F]

\* os.scandir of the descriptor opened last: what was opened stays a
\* regular file or a directory, removed or not; a directory that has been
\* removed lists nothing
rmtree_scandir(rm, D, F) ==
    LET n == Len(rm.stack)
        at == rm.stack[n].at
    IN  IF ~rm.stack[n].is_dir
        THEN [out |-> "NotADirectoryError", rm |-> rm, dirs |-> D, files |-> F]
        ELSE [out |-> "go",
              rm |-> [rm EXCEPT !.pc = "entries",
                                !.stack[n].entries =
                                    IF at = Gone THEN {} ELSE scandir(at, D, F)],
              dirs |-> D, files |-> F]

\* os.unlink(name, dir_fd) of an entry of the directory opened last
rmtree_unlink(rm, name, D, F) ==
    LET r == IF rmtree_gone(rm)
             THEN [out |-> "FileNotFoundError", dirs |-> D, files |-> F]
             ELSE unlink(rmtree_entry(rm, name), D, F)
    IN  [out |-> IF r.out = "ok" THEN "go" ELSE r.out,
         rm |-> [rm EXCEPT !.pc = "entries"], dirs |-> r.dirs, files |-> r.files]

\* The listing of the directory opened last is done: the directory is
\* closed and removed, by its name in the directory that holds it
\* (os.rmdir(name, dir_fd)) or, the directory rmtree was called for, by its
\* path (os.rmdir(path)), which ends the run
rmtree_rmdir(rm, D, F) ==
    LET n == Len(rm.stack)
        outer == [rm EXCEPT !.stack = SubSeq(@, 1, n - 1)]
        r == IF n = 1 THEN rmdir(rm.path, D, F)
             ELSE IF rmtree_gone(outer)
             THEN [out |-> "FileNotFoundError", dirs |-> D, files |-> F]
             ELSE rmdir(rmtree_entry(outer, rm.stack[n].name), D, F)
    IN  [out |-> IF r.out = "ok" /\ n > 1 THEN "go" ELSE r.out,
         rm |-> outer, dirs |-> r.dirs, files |-> r.files]

\* One call of the run rm: out is "go" while calls are to come, and the
\* outcome of shutil.rmtree at the end.  e is the entry of the listing that
\* comes next, when the run is at the entries of a listing that has some;
\* reused is what the filesystem has done with the inode that os.lstat saw,
\* when the run is at os.open.
rmtree_call(rm, e, reused, D, F) ==
    LET taken == [rm EXCEPT !.entry = e.name,
                            !.stack[Len(rm.stack)].entries = @ \ {e}]
    IN  CASE rm.pc = "lstat" -> rmtree_lstat(rm, rmtree_path(rm), D, F)
          [] rm.pc = "open" -> rmtree_open(rm, rmtree_path(rm), reused, D, F)
          [] rm.pc = "scandir" -> rmtree_scandir(rm, D, F)
          [] rm.pc = "unlink" -> rmtree_unlink(rm, rm.entry, D, F)
          [] rm.pc = "entries" ->
               IF rm.stack[Len(rm.stack)].entries = {} THEN rmtree_rmdir(rm, D, F)
               ELSE IF e.is_dir THEN rmtree_lstat(taken, rmtree_entry(rm, e.name), D, F)
               ELSE rmtree_unlink(taken, e.name, D, F)

\* The entries of a listing that may come next in the run rm; the listing
\* fixes no order.
rmtree_entries(rm) ==
    IF rm.pc = "entries" /\ rm.stack[Len(rm.stack)].entries # {}
    THEN rm.stack[Len(rm.stack)].entries
    ELSE {[name |-> "", is_dir |-> FALSE]}

\* The calls of a run, one after the other: no call of another comes
\* between os.lstat and os.open, and os.open finds what os.lstat saw.
RECURSIVE rmtree_run(_, _, _)
rmtree_run(rm, D, F) ==
    LET next(r) ==
            IF r.out = "go" THEN rmtree_run(r.rm, r.dirs, r.files)
            ELSE [out |-> r.out, dirs |-> r.dirs, files |-> r.files]
    IN  next(rmtree_call(rm, CHOOSE e \in rmtree_entries(rm) : TRUE, FALSE, D, F))

\* shutil.rmtree(path)
rmtree(path, D, F) == rmtree_run(rmtree_begin(path), D, F)

\* if os.path.exists(path): shutil.rmtree(path)
RmtreeIfExists(path, D, F) ==
    IF exists(path, D, F) THEN rmtree(path, D, F)
    ELSE [out |-> "ok", dirs |-> D, files |-> F]

\* A removal that lets a missing file pass.
RemoveMissingOk(path, D, F) == [out |-> "ok", dirs |-> D, files |-> F \ {path}]

\* os.remove(path)
Remove(path, D, F) == unlink(path, D, F)

----------------------------------------------------------------------------
(***************************************************************************)
(* Passwords.  A value of the password column is a record: hasher names   *)
(* the algorithm that produced it ("none" for a string stored as it was    *)
(* submitted) and secret the password it was made from.  make_password is  *)
(* a salted one-way hash, and check_password accepts a plaintext exactly   *)
(* when the stored value is a digest of it.                                *)
(***************************************************************************)

Raw(p) == [hasher |-> "none", secret |-> p]

make_password(p) == [hasher |-> "pbkdf2_sha256", secret |-> p]

check_password(p, stored) == stored = make_password(p)

----------------------------------------------------------------------------
(* account: signup                                                         *)

Field(req, f) == IF f \in DOMAIN req THEN req[f] ELSE "<missing>"

Has(req, f) == f \in DOMAIN req

validate_username(value) ==
    value \in DOMAIN REGEX_USERNAME /\ REGEX_USERNAME[value] /\ ANY_ISALPHA[value]

validate_password(value) ==
    value \in DOMAIN REGEX_PASSWORD /\ REGEX_PASSWORD[value]

\* A contact field that checks the length alone.
SignupSerializer_contact_length_only(value) ==
    IF Len(value) > MAX_LENGTH_contact
    THEN {"Ensure this field has no more than 10 characters."}
    ELSE IF Len(value) < MIN_LENGTH_contact
    THEN {"Ensure this field has at least 10 characters."}
    ELSE {}

\* The contact field of SignupSerializer: the length validators of the
\* CharField, and validate_contact when they pass
SignupSerializer_contact(value) ==
    IF Len(value) > MAX_LENGTH_contact
    THEN {"Ensure this field has no more than 10 characters."}
    ELSE IF Len(value) < MIN_LENGTH_contact
    THEN {"Ensure this field has at least 10 characters."}
    ELSE IF ~(value \in DOMAIN REGEX_contact /\ REGEX_contact[value])
    THEN {"invalid contact"}
    ELSE {}

\* serializer.errors of SignupSerializer, as (field, message) pairs
SignupSerializer_errors(req) ==
    (IF validate_username(req.username) THEN {}
     ELSE {<<"username", "username must contain alphabet and special character">>})
    \cup {<<"contact", e>> : e \in SignupSerializer_contact(req.contact)}
    \cup
    (IF validate_password(req.password) THEN {}
     ELSE {<<"password",
             "Password must contain uppercase, lowercase, digit and special character">>})

\* SignupSerializer.is_valid(): the declared fields carry no uniqueness
\* validator, so only presence and format are checked.
SignupSerializer_is_valid(req) ==
    /\ Has(req, "username") /\ validate_username(req.username)
    /\ Has(req, "email") /\ req.email \in Emails
    /\ Has(req, "contact") /\ SignupSerializer_contact(req.contact) = {}
    /\ Has(req, "password") /\ validate_password(req.password)

UserUnique(rows, id, username, email) ==
    \A r \in rows : r.id # id => r.username # username /\ r.email # email

\* os.makedirs(path, exist_ok=True)
MakedirsExistOk(path, D, F) == makedirs(path, TRUE, D, F)

\* os.makedirs(directory_path) of SignupSerializer.create
SignupMakedirs(path, D, F) == Makedirs(path, D, F)

\* SignupSerializer.create: set_password, os.makedirs, user.save()
SignupSerializer_create(data) ==
    LET id == autoid["User"] + 1
        user == [id |-> id, username |-> data.username, email |-> data.email,
                 contact |-> data.contact,
                 password |-> make_password(data.password), token |-> NoToken]
        mk == SignupMakedirs(DIRECTORY_PATH \o <<data.username>>, dirs, files)
    IN  IF mk.out # "ok"
        THEN [out |-> mk.out, User |-> User, autoid |-> autoid, dirs |-> dirs]
        ELSE IF ~UserUnique(User, id, data.username, data.email)
        THEN [out |-> "IntegrityError", User |-> User, autoid |-> autoid,
              dirs |-> mk.dirs]
        ELSE [out |-> "201", User |-> User \cup {user},
              autoid |-> [autoid EXCEPT !["User"] = id], dirs |-> mk.dirs]

\* SignupView.create
SignupView_create(req) ==
    IF SignupSerializer_is_valid(req)
    THEN SignupSerializer_create(req)
    ELSE [out |-> "400", User |-> User, autoid |-> autoid, dirs |-> dirs,
          errors |-> SignupSerializer_errors(req)]

SignupRequests ==
    [username : Usernames, email : Emails, contact : Contacts, password : Passwords]

Signup(req) ==
    \E r \in {SignupView_create(req)} :
        /\ r.autoid["User"] <= MaxUsers
        /\ User' = r.User
        /\ autoid' = r.autoid
        /\ dirs' = r.dirs
        /\ last' = [op |-> "signup", out |-> r.out]
        /\ UNCHANGED <<galleryTables, files, tokenVars, signedOut, now, quietVars>>

----------------------------------------------------------------------------
(* account: signin                                                         *)

Authenticated(uid) == \E r \in User : r.id = uid

\* SigninSerializer.validate_username: the pattern alone
Signin_validate_username(value) ==
    value \in DOMAIN REGEX_USERNAME /\ REGEX_USERNAME[value]

\* django.contrib.auth.authenticate: the row of that username whose stored
\* password is a digest of the given password, or none
authenticate(username, password) ==
    {r \in User : r.username = username /\ check_password(password, r.password)}

\* SigninSerializer.is_valid(): field formats, then validate()
SigninSerializer_is_valid(req) ==
    /\ Signin_validate_username(req.username)
    /\ validate_password(req.password)
    /\ authenticate(req.username, req.password) # {}

\* SigninSerializer.create: RefreshToken.for_user draws a token id for the
\* refresh token, and each read of refresh.access_token builds a new access
\* token with a token id of its own.
SigninSerializer_create(req) ==
    LET user == CHOOSE r \in authenticate(req.username, req.password) : TRUE
        refresh == [jti |-> jti + 1, uid |-> user.id,
                    exp |-> now + REFRESH_TOKEN_LIFETIME]
        stored == jti + 2
        returned == jti + 3
    IN  [out |-> "200",
         User |-> (User \ {user}) \cup {[user EXCEPT !.token = stored]},
         outstanding |-> outstanding \cup {refresh},
         jti |-> jti + 3,
         access |-> returned, refresh |-> refresh.jti, errors |-> {}]

\* The messages of validate_username and validate_password
SigninSerializer_field_errors(req) ==
    (IF Signin_validate_username(req.username) THEN {}
     ELSE {<<"username", "username must contain alphabet and special character">>})
    \cup
    (IF validate_password(req.password) THEN {}
     ELSE {<<"password",
             "Password must contain uppercase, lowercase, digit and special character">>})

\* A validate() that says which of the two credentials is wrong.
SigninSerializer_errors_telling(req) ==
    IF SigninSerializer_field_errors(req) # {}
    THEN SigninSerializer_field_errors(req)
    ELSE IF authenticate(req.username, req.password) # {}
    THEN {}
    ELSE IF \E r \in User : r.username = req.username
    THEN {<<"non_field_errors", "Invalid Password">>}
    ELSE {<<"non_field_errors", "Invalid Username">>}

\* serializer.errors: the field messages, and, when both fields pass, the one
\* message of validate()
SigninSerializer_errors(req) ==
    IF SigninSerializer_field_errors(req) # {}
    THEN SigninSerializer_field_errors(req)
    ELSE IF authenticate(req.username, req.password) # {}
    THEN {}
    ELSE {<<"non_field_errors", "Invalid Credentials">>}

\* SigninView.create: is_valid(raise_exception=True) answers 400 itself, with
\* serializer.errors as the body
SigninView_create(req) ==
    IF SigninSerializer_is_valid(req)
    THEN SigninSerializer_create(req)
    ELSE [out |-> "400", User |-> User, outstanding |-> outstanding, jti |-> jti,
          access |-> NoToken, refresh |-> NoToken,
          errors |-> SigninSerializer_errors(req)]

SigninRequests == [username : Usernames, password : Passwords]

Signin(req) ==
    \E r \in {SigninView_create(req)} :
        /\ Cardinality(r.outstanding) <= MaxTokens
        /\ User' = r.User
        /\ outstanding' = r.outstanding
        /\ jti' = r.jti
        /\ last' = [op |-> "signin", out |-> r.out]
        /\ UNCHANGED <<galleryTables, autoid, fsVars, blacklisted, signedOut, now, quietVars>>

----------------------------------------------------------------------------
(* account: sign_out                                                       *)

\* RefreshToken(token): the token verifies when it was issued by this
\* server, has not expired and is not on the denylist.
RefreshToken_verify(token) ==
    \E t \in outstanding :
        /\ t.jti = token
        /\ now < t.exp
        /\ t.jti \notin blacklisted

\* SignOutSerializer.validate
SignOutSerializer_validate(req) == RefreshToken_verify(req.refresh)

SignOutSerializer_create_forgetful(req) ==
    [out |-> "200", blacklisted |-> blacklisted]

\* SignOutSerializer.create: refresh_token.blacklist()
SignOutSerializer_create(req) ==
    [out |-> "200", blacklisted |-> blacklisted \cup {req.refresh}]

\* SignOutView.create, for an authenticated caller
SignOutView_create(req) ==
    IF SignOutSerializer_validate(req)
    THEN SignOutSerializer_create(req)
    ELSE [out |-> "400", blacklisted |-> blacklisted]

\* A caller presents a token that was issued (to anyone) or a forged one.
SignOutRequests ==
    [caller : {r.id : r \in User},
     refresh : {t.jti : t \in outstanding} \cup {NoToken}]

SignOut(req) ==
    \E r \in {SignOutView_create(req)} :
        /\ Authenticated(req.caller)
        /\ blacklisted' = r.blacklisted
        /\ signedOut' = IF r.out = "200" THEN signedOut \cup {req.refresh}
                        ELSE signedOut
        /\ last' = [op |-> "sign_out", out |-> r.out]
        /\ UNCHANGED <<dbVars, fsVars, outstanding, jti, now, quietVars>>

Tick ==
    /\ now < MaxTime
    /\ now' = now + 1
    /\ last' = [op |-> "tick", out |-> "ok"]
    /\ UNCHANGED <<dbVars, fsVars, tokenVars, signedOut, quietVars>>

----------------------------------------------------------------------------
(* account: userprofile (PUT and PATCH)                                    *)

UserProfileSerializer_validate_password_plain(value) == Raw(value)

\* UserProfileSerializer.validate_password returns the digest, which is
\* what update() then writes.
UserProfileSerializer_validate_password(value) == make_password(value)

\* UserProfileSerializer.is_valid(): a field that is absent is an error
\* unless the serializer is partial
UserProfileSerializer_is_valid(data, partial) ==
    /\ IF Has(data, "username") THEN validate_username(data.username) ELSE partial
    /\ IF Has(data, "email") THEN data.email \in Emails ELSE partial
    /\ IF Has(data, "password") THEN validate_password(data.password) ELSE partial

validated_data(data) ==
    [f \in DOMAIN data |->
        IF f = "password" THEN UserProfileSerializer_validate_password(data[f])
        ELSE data[f]]

\* User.objects.filter(id=...).update(**validated_data) on one row
UpdatedRow(row, vd) ==
    [f \in DOMAIN row |-> IF f \in DOMAIN vd THEN vd[f] ELSE row[f]]

\* UserProfileSerializer.update: the database update, then os.rename of the
\* user's directory to media/<validated_data['username']>
UserProfileSerializer_update(instance, vd) ==
    LET row == UpdatedRow(instance, vd)
        rn == Rename(DIRECTORY_PATH \o <<instance.username>>,
                     DIRECTORY_PATH \o <<Field(vd, "username")>>, dirs, files)
    IN  IF ~UserUnique(User, row.id, row.username, row.email)
        THEN [out |-> "IntegrityError", User |-> User, dirs |-> dirs, files |-> files]
        ELSE IF ~Has(vd, "username")
        THEN [out |-> "KeyError", User |-> (User \ {instance}) \cup {row},
              dirs |-> dirs, files |-> files]
        ELSE [out |-> IF rn.out = "ok" THEN "200" ELSE rn.out,
              User |-> (User \ {instance}) \cup {row},
              dirs |-> rn.dirs, files |-> rn.files]

\* UserProfileView.update (partial = FALSE) and partial_update (TRUE):
\* get_object() finds only the caller's own row
UserProfileView_update(req, partial) ==
    LET found == {r \in User : r.id = req.caller /\ r.id = req.pk}
    IN  IF found = {}
        THEN [out |-> "404", User |-> User, dirs |-> dirs, files |-> files]
        ELSE IF ~UserProfileSerializer_is_valid(req.data, partial)
        THEN [out |-> "400", User |-> User, dirs |-> dirs, files |-> files]
        ELSE UserProfileSerializer_update(CHOOSE r \in found : TRUE,
                                          validated_data(req.data))

\* Payloads: complete and well-formed ones, two with a malformed field, and
\* partial ones.
ProfileData ==
    UNION {[username : {u \in Usernames : validate_username(u)}, email : Emails,
            password : {w \in Passwords : validate_password(w)}],
           {[username |-> "alice001", email |-> "a@x.io", password |-> "Passw0rd!"],
            [username |-> "alice_01", email |-> "a@x.io", password |-> "password"]},
           [email : Emails, password : {w \in Passwords : validate_password(w)}],
           [username : {u \in Usernames : validate_username(u)}],
           [password : Passwords]}

ProfileRequests ==
    [caller : {r.id : r \in User}, pk : {r.id : r \in User}, data : ProfileData]

UserProfile(req, partial) ==
    \E r \in {UserProfileView_update(req, partial)} :
        /\ Authenticated(req.caller)
        /\ User' = r.User
        /\ dirs' = r.dirs
        /\ files' = r.files
        /\ last' = [op |-> IF partial THEN "userprofile_patch" ELSE "userprofile_put",
                    out |-> r.out]
        /\ UNCHANGED <<galleryTables, autoid, tokenVars, signedOut, now, quietVars>>

----------------------------------------------------------------------------
(* The account application, from the empty system.                         *)

Tables == {"User", "ImageGallery", "Image", "VideoGallery", "Video"}

Init ==
    /\ User = {} /\ ImageGallery = {} /\ Image = {}
    /\ VideoGallery = {} /\ Video = {}
    /\ autoid = [t \in Tables |-> 0]
    /\ dirs = {} /\ files = {}
    /\ outstanding = {} /\ blacklisted = {} /\ jti = 0
    /\ now = 0
    /\ signedOut = {}
    /\ NoRace
    /\ last = [op |-> "none", out |-> "none"]

NextAccount ==
    \/ \E req \in SignupRequests : Signup(req)
    \/ \E req \in ProfileRequests : UserProfile(req, FALSE)
    \/ \E req \in ProfileRequests : UserProfile(req, TRUE)

SpecAccount == Init /\ [][NextAccount]_vars

----------------------------------------------------------------------------
(* Sessions: signin, sign_out and the clock, once two accounts exist.      *)

SignedUp(id, username, email, password) ==
    [id |-> id, username |-> username, email |-> email, contact |-> "1234567890",
     password |-> make_password(password), token |-> NoToken]

\* The state after signup of alice_01 and of bob@2023.
InitSession ==
    /\ User = {SignedUp(1, "alice_01", "a@x.io", "Passw0rd!"),
               SignedUp(2, "bob@2023", "b@x.io", "S3cret+Key")}
    /\ ImageGallery = {} /\ Image = {}
    /\ VideoGallery = {} /\ Video = {}
    /\ autoid = [t \in Tables |-> IF t = "User" THEN 2 ELSE 0]
    /\ dirs = {<<"media">>, <<"media", "alice_01">>, <<"media", "bob@2023">>}
    /\ files = {}
    /\ outstanding = {} /\ blacklisted = {} /\ jti = 0
    /\ now = 0
    /\ signedOut = {}
    /\ NoRace
    /\ last = [op |-> "signup", out |-> "201"]

\* PATCH userprofile with a new password alone
PasswordChangeRequests ==
    [caller : {r.id : r \in User}, pk : {r.id : r \in User},
     data : [password : Passwords]]

NextSession ==
    \/ \E req \in SigninRequests : Signin(req)
    \/ \E req \in SignOutRequests : SignOut(req)
    \/ \E req \in PasswordChangeRequests : UserProfile(req, TRUE)
    \/ Tick

SpecSession == InitSession /\ [][NextSession]_vars

----------------------------------------------------------------------------
(***************************************************************************)
(* gallery: the four view sets.  The image and the video classes are the   *)
(* same code but for the table they work on, the path segment ("image" or  *)
(* "video") and the validators; an operator below takes the kind and the   *)
(* tables of that kind (G the gallery rows, M the media rows) and answers  *)
(* with the outcome and the new tables, directories and files.             *)
(***************************************************************************)

Kinds == {"image", "video"}

GalleryTable(kind) == IF kind = "image" THEN "ImageGallery" ELSE "VideoGallery"
MediaTable(kind) == IF kind = "image" THEN "Image" ELSE "Video"

\* Gallery names a request may carry.  A name is any string: "album/x1" and
\* "album/x/y" hold path separators, "album/." ends in the directory
\* itself, "pic" is shorter than MIN_LENGTH['gallery_name'].
GalleryNames == {"album", "trips", "album/x1", "album/x/y", "album/.", "pic"}
MIN_LENGTH_gallery_name == 5
MAX_LENGTH_gallery_name == 20

\* The names without a path separator.
PlainNames == {"album", "trips", "pic"}

\* CharField(min_length=5, max_length=20)
GalleryNameField(value) ==
    /\ Len(value) >= MIN_LENGTH_gallery_name
    /\ Len(value) <= MAX_LENGTH_gallery_name

UserRow(uid) == CHOOSE r \in User : r.id = uid

\* IMAGE_GALLERY_PATH and VIDEO_GALLERY_PATH
GALLERY_PATH(kind, username, gallery_name) ==
    <<"media", username, kind>> \o Components(gallery_name)

\* IMAGE_UPLOAD_PATH and VIDEO_UPLOAD_PATH as Storage.generate_filename
\* leaves them (os.path.normpath): the name stored on a media row
UPLOAD_PATH(kind, username, gallery_name, filename) ==
    Resolve(<<username, kind>> \o Components(gallery_name)) \o <<filename>>

\* IMAGE_PATH_TEMPLATE.format(MEDIA_URL, name)
PATH_TEMPLATE(name) == MEDIA_URL \o name

\* A queryset without the filter on the owner
AllGalleries(G, caller) == G

\* get_queryset of the gallery view sets: the caller's own galleries
OwnGalleries(G, caller) == {g \in G : g.user = caller}

\* get_queryset of the media view sets: the rows in the caller's galleries
OwnMedia(G, M, caller) ==
    {m \in M : \E g \in OwnGalleries(G, caller) : g.id = m.gallery}

Unchanged(out, G, M) ==
    [out |-> out, G |-> G, M |-> M, autoid |-> autoid, clock |-> clock,
     dirs |-> dirs, files |-> files]

----------------------------------------------------------------------------
(* gallery: create, rename, delete, retrieve of a gallery                  *)

\* ImageGalleryCreateSerializer.validate_gallery_name: per owner
ImageGalleryCreateSerializer_validate_gallery_name(G, caller, value) ==
    ~\E g \in G : g.user = caller /\ g.gallery_name = value

\* VideoGalleryCreateSerializer.validate_gallery_name: over all owners
VideoGalleryCreateSerializer_validate_gallery_name(G, caller, value) ==
    ~\E g \in G : g.gallery_name = value

GalleryCreateSerializer_validate_gallery_name(kind, G, caller, value) ==
    IF kind = "image"
    THEN ImageGalleryCreateSerializer_validate_gallery_name(G, caller, value)
    ELSE VideoGalleryCreateSerializer_validate_gallery_name(G, caller, value)

\* {Image,Video}GalleryCreateSerializer.create: the row, then os.makedirs
GalleryCreateSerializer_create(kind, G, M, caller, name) ==
    LET id == autoid[GalleryTable(kind)] + 1
        row == [id |-> id, user |-> caller, gallery_name |-> name]
        mk == Makedirs(GALLERY_PATH(kind, UserRow(caller).username, name), dirs, files)
    IN  [out |-> IF mk.out = "ok" THEN "201" ELSE mk.out,
         G |-> G \cup {row}, M |-> M,
         autoid |-> [autoid EXCEPT ![GalleryTable(kind)] = id], clock |-> clock,
         dirs |-> mk.dirs, files |-> mk.files]

\* {Image,Video}GalleryViewSet.create
GalleryViewSet_create(kind, G, M, req) ==
    IF ~GalleryNameField(req.gallery_name)
    THEN Unchanged("400", G, M)
    ELSE IF ~GalleryCreateSerializer_validate_gallery_name(kind, G, req.caller,
                                                           req.gallery_name)
    THEN Unchanged("400 exists", G, M)
    ELSE GalleryCreateSerializer_create(kind, G, M, req.caller, req.gallery_name)

GalleryUpdateSerializer_validate_unchecked(G, caller, value) == TRUE

\* {Image,Video}GalleryUpdateSerializer.validate_gallery_name: per owner
GalleryUpdateSerializer_validate_gallery_name(G, caller, value) ==
    ~\E g \in G : g.user = caller /\ g.gallery_name = value

\* <Gallery>.objects.filter(id=instance.id).update(**validated_data)
GalleryUpdateSerializer_update_row(G, id, name) ==
    {IF g.id = id THEN [g EXCEPT !.gallery_name = name] ELSE g : g \in G}

\* An update() that leaves the directory where it is.
GalleryUpdateSerializer_update_no_rename(kind, D, F, username, old, new) ==
    [out |-> "ok", dirs |-> D, files |-> F]

\* os.rename(old_path, new_path) of update(), old_path from the name the
\* instance had when it was read
GalleryUpdateSerializer_update_rename(kind, D, F, username, old, new) ==
    Rename(GALLERY_PATH(kind, username, old), GALLERY_PATH(kind, username, new), D, F)

\* {Image,Video}GalleryUpdateSerializer.update on the directories D and the
\* files F: the row, then os.rename
GalleryUpdateSerializer_update_on(kind, G, M, D, F, caller, instance, name) ==
    LET rn == GalleryUpdateSerializer_update_rename(kind, D, F,
                  UserRow(caller).username, instance.gallery_name, name)
    IN  [out |-> IF rn.out = "ok" THEN "201" ELSE rn.out,
         G |-> GalleryUpdateSerializer_update_row(G, instance.id, name),
         M |-> M, autoid |-> autoid, clock |-> clock, dirs |-> rn.dirs, files |-> rn.files]

\* {Image,Video}GalleryUpdateSerializer.update
GalleryUpdateSerializer_update(kind, G, M, caller, instance, name) ==
    GalleryUpdateSerializer_update_on(kind, G, M, dirs, files, caller, instance, name)

\* {Image,Video}GalleryViewSet.update on the directories D and the files F
GalleryViewSet_update_on(kind, G, M, D, F, req) ==
    LET found == {g \in OwnGalleries(G, req.caller) : g.id = req.pk}
        same(out) == [out |-> out, G |-> G, M |-> M, autoid |-> autoid, clock |-> clock,
                      dirs |-> D, files |-> F]
    IN  IF found = {}
        THEN same("404")
        ELSE IF ~GalleryNameField(req.gallery_name)
        THEN same("400")
        ELSE IF ~GalleryUpdateSerializer_validate_gallery_name(G, req.caller,
                                                               req.gallery_name)
        THEN same("400 exists")
        ELSE GalleryUpdateSerializer_update_on(kind, G, M, D, F, req.caller,
                                               CHOOSE g \in found : TRUE,
                                               req.gallery_name)

\* {Image,Video}GalleryViewSet.update
GalleryViewSet_update(kind, G, M, req) ==
    GalleryViewSet_update_on(kind, G, M, dirs, files, req)

\* {Image,Video}GalleryViewSet.destroy: rmtree of the folder when it exists,
\* then instance.delete(), which cascades to the media rows
GalleryViewSet_destroy(kind, G, M, req) ==
    LET found == {g \in OwnGalleries(G, req.caller) : g.id = req.pk}
    IN  IF found = {}
        THEN Unchanged("404", G, M)
        ELSE LET instance == CHOOSE g \in found : TRUE
                 rm == RmtreeIfExists(
                         GALLERY_PATH(kind, UserRow(req.caller).username,
                                      instance.gallery_name), dirs, files)
             IN  IF rm.out # "ok"
                 THEN [out |-> rm.out, G |-> G, M |-> M, autoid |-> autoid, clock |-> clock,
                       dirs |-> rm.dirs, files |-> rm.files]
                 ELSE [out |-> "200", G |-> G \ {instance},
                       M |-> {m \in M : m.gallery # instance.id},
                       autoid |-> autoid, clock |-> clock, dirs |-> rm.dirs, files |-> rm.files]

\* {Image,Video}GalleryViewSet.retrieve
GalleryViewSet_retrieve(kind, G, M, req) ==
    IF \E g \in OwnGalleries(G, req.caller) : g.id = req.pk
    THEN Unchanged("200", G, M)
    ELSE Unchanged("404", G, M)

----------------------------------------------------------------------------
(* gallery: upload, delete, retrieve of media                              *)

\* An uploaded file is its extension and its size in bytes.
Extensions == {".jpg", ".mp4", ".MP4", ".avi"}
LOWER == [e \in Extensions |-> IF e = ".MP4" THEN ".mp4" ELSE e]

File(ext, size) == [ext |-> ext, size |-> size]

\* ImageCreateSerializer.validate_image: the loop returns in its first
\* round, so only the first image is measured
ImageCreateSerializer_validate_image(value) ==
    IF value[1].size > MAX_SIZE_IMAGE THEN "400 max_size" ELSE "ok"

\* A validate_video that looks at the first file alone.
VideoCreateSerializer_validate_video_first_only(value) ==
    IF LOWER[value[1].ext] # VIDEO_FORMAT THEN "400 format"
    ELSE IF value[1].size > MAX_SIZE_VIDEO THEN "400 max_size"
    ELSE "ok"

\* VideoCreateSerializer.validate_video: the first file, in order, that is
\* not an mp4 or is too large decides the error
VideoCreateSerializer_validate_video(value) ==
    LET bad == {i \in 1..Len(value) :
                  \/ LOWER[value[i].ext] # VIDEO_FORMAT
                  \/ value[i].size > MAX_SIZE_VIDEO}
    IN  IF bad = {} THEN "ok"
        ELSE IF LOWER[value[Min(bad)].ext] # VIDEO_FORMAT THEN "400 format"
        ELSE "400 max_size"

\* The field-level validation of the upload: the list is required, then
\* validate_image or validate_video
CreateSerializer_validate_field(kind, value) ==
    IF Len(value) = 0 THEN "400 required"
    ELSE IF kind = "image" THEN ImageCreateSerializer_validate_image(value)
    ELSE VideoCreateSerializer_validate_video(value)

CreateSerializer_exceeds_batch_only(n, count) == n > MAX_LIMIT

\* len(images) + gallery.image_gallery_set.count() > MAX_LIMIT['max_limit']
CreateSerializer_exceeds(n, count) == n + count > MAX_LIMIT

\* {Image,Video}CreateSerializer.validate: for a gallery id that is not 0,
\* the caller's gallery or 404, then the count of rows plus the batch
CreateSerializer_validate(G, M, caller, gallery_id, value) ==
    IF gallery_id = 0 THEN "ok"
    ELSE IF ~\E g \in OwnGalleries(G, caller) : g.id = gallery_id THEN "404"
    ELSE IF CreateSerializer_exceeds(Len(value),
                Cardinality({m \in M : m.gallery = gallery_id}))
    THEN "400 max_limit"
    ELSE "ok"

\* os.path.basename(name)
basename(name) == SubSeq(name, rfind(name, "/") + 1, Len(name))

\* A character that is no dot stands between the last separator before
\* position i and position i.
RECURSIVE has_name(_, _)
has_name(p, i) ==
    IF i = 0 \/ SubSeq(p, i, i) = "/" THEN FALSE
    ELSE IF SubSeq(p, i, i) # "." THEN TRUE
    ELSE has_name(p, i - 1)

\* os.path.splitext(p)[1]: p from its last dot on, when that dot stands after
\* the last separator and a character that is no dot stands between them
splitext(p) ==
    LET dot == rfind(p, ".")
    IN  IF dot > 0 /\ Positions(SubSeq(p, dot, Len(p)), "/") = {} /\ has_name(p, dot - 1)
        THEN SubSeq(p, dot, Len(p))
        ELSE ""

\* os.path.splitext(name)[0]
splitext_root(name) == SubSeq(name, 1, Len(name) - Len(splitext(name)))

\* timezone.now() in the fields of FILENAME_FORMAT, which are not padded:
\* day-month-year-hour-minute-second-microsecond.  t is the clock, stamp
\* the microsecond: two calls of timezone.now() by one process do not fall
\* in the same microsecond, two calls by two processes can.  At tick 0 it is
\* 1 January, 01:01:01.
Timestamp(t, stamp) ==
    IF t = 0 THEN "1-1-2026-1-1-1-" \o ToString(stamp)
    ELSE "29-10-2026-12-34-56-" \o ToString(100000 + stamp)

\* FILENAME_FORMAT.format(...) and VIDEO_FILENAME_FORMAT.format(...)
FILENAME_FORMAT(username, gallery_name, timestamp, extension) ==
    username \o "-" \o gallery_name \o "-" \o timestamp \o extension

\* generate_unique_image, and generate_unique_video_filename before its join:
\* one name for every file of the batch, each with the extension its file
\* has at the time of the call
generate_unique_names(username, gallery_name, names, timestamp) ==
    [j \in 1..Len(names) |->
        FILENAME_FORMAT(username, gallery_name, timestamp, splitext(names[j]))]

\* str.replace(c, to) for one character c: the occurrences at the positions
\* P of s are replaced, from the last one on
RECURSIVE replace_at(_, _, _)
replace_at(s, P, to) ==
    IF P = {} THEN s
    ELSE replace_at(SubSeq(s, 1, Max(P) - 1), P \ {Max(P)}, to)
           \o to \o SubSeq(s, Max(P) + 1, Len(s))

replace(s, c, to) == replace_at(s, Positions(s, c), to)

\* repr() of a string: in double quotes when it holds a single quote and no
\* double quote, in single quotes otherwise; a backslash and the quote used
\* are escaped
repr(s) ==
    IF Positions(s, "'") # {} /\ Positions(s, "\"") = {}
    THEN "\"" \o replace(s, "\\", "\\\\") \o "\""
    ELSE "'" \o replace(replace(s, "\\", "\\\\"), "'", "\\'") \o "'"

\* str() of a list of strings
RECURSIVE str_items(_)
str_items(list) ==
    IF Len(list) = 0 THEN ""
    ELSE IF Len(list) = 1 THEN repr(list[1])
    ELSE repr(list[1]) \o ", " \o str_items(Tail(list))

str(list) == "[" \o str_items(list) \o "]"

\* ''.join(list)
RECURSIVE join(_)
join(list) == IF Len(list) = 0 THEN "" ELSE list[1] \o join(Tail(list))

\* The limit of the name setter of an uploaded file, and the max_length of
\* a FileField (ImageField) declared without one.
MAX_NAME == 255
FileField_max_length == 100

\* s[:n]
slice(s, n) == IF Len(s) > n THEN SubSeq(s, 1, n) ELSE s

\* The name setter of an uploaded file (UploadedFile.name = ...): the base
\* name, cut to 255 characters with its extension kept
UploadedFile_name(name) ==
    LET base == basename(name)
        ext == slice(splitext(base), MAX_NAME)
    IN  IF Len(base) > MAX_NAME
        THEN slice(splitext_root(base), MAX_NAME - Len(ext)) \o ext
        ELSE base

\* One round of the loop of {Image,Video}CreateSerializer.create, for file
\* i: the names of the whole batch are generated, timezone.now() being in
\* the microsecond stamp, and the name of file i is set to the str() of the
\* list (image) or to the joined names (video).
AssignName(kind, username, gallery_name, names, i, t, stamp) ==
    LET generated == generate_unique_names(username, gallery_name, names,
                                           Timestamp(t, stamp))
        name == IF kind = "image" THEN str(generated) ELSE join(generated)
    IN  [names EXCEPT ![i] = UploadedFile_name(name)]

\* The loop of {Image,Video}CreateSerializer.create from file i on, in one
\* process: each round has a microsecond of its own, the next after first.
RECURSIVE AssignNames(_, _, _, _, _, _, _)
AssignNames(kind, username, gallery_name, names, i, t, first) ==
    IF i > Len(names) THEN names
    ELSE AssignNames(kind, username, gallery_name,
                     AssignName(kind, username, gallery_name, names, i, t, first + i),
                     i + 1, t, first)

\* The names the files of the batch value come in with: upload<ext>.
UploadedNames(value) == [i \in 1..Len(value) |-> "upload" \o value[i].ext]

\* The names the files of the batch value carry when create() has set them.
generate_unique_filename(kind, username, gallery_name, value, t, first) ==
    AssignNames(kind, username, gallery_name, UploadedNames(value), 1, t, first)

\* The characters \w of a regular expression, "-" and "."
WordChars ==
    {"a", "b", "c", "d", "e", "f", "g", "h", "i", "j", "k", "l", "m", "n", "o",
     "p", "q", "r", "s", "t", "u", "v", "w", "x", "y", "z",
     "A", "B", "C", "D", "E", "F", "G", "H", "I", "J", "K", "L", "M", "N", "O",
     "P", "Q", "R", "S", "T", "U", "V", "W", "X", "Y", "Z",
     "0", "1", "2", "3", "4", "5", "6", "7", "8", "9", "_", "-", "."}

\* str.strip()
RECURSIVE strip(_)
strip(s) ==
    IF Len(s) = 0 THEN s
    ELSE IF SubSeq(s, 1, 1) = " " THEN strip(SubSeq(s, 2, Len(s)))
    ELSE IF SubSeq(s, Len(s), Len(s)) = " " THEN strip(SubSeq(s, 1, Len(s) - 1))
    ELSE s

\* re.sub(r'(?u)[^-\w.]', '', s)
sub(s) == replace_at(s, {i \in 1..Len(s) : SubSeq(s, i, i) \notin WordChars}, "")

\* Storage.get_valid_name(name): the ends stripped, a space turned into "_",
\* every character that is not a letter, a digit, "_", "-" or "." dropped
get_valid_name(name) == sub(replace(strip(name), " ", "_"))

\* len() of the path p as a string, its components joined by "/"
RECURSIVE PathLen(_)
PathLen(p) ==
    IF Len(p) = 0 THEN 0
    ELSE IF Len(p) = 1 THEN Len(p[1])
    ELSE Len(p[1]) + 1 + PathLen(Tail(p))

\* The streams of random strings a request may draw from.
Seeds == {"qZ7", "b4K"}

\* get_random_string(7): the k-th string of the stream seed
get_random_string(seed, k) == seed \o ToString(1000 + k)

\* Storage.get_alternative_name(file_root, file_ext)
get_alternative_name(file_root, file_ext, random) ==
    file_root \o "_" \o random \o file_ext

\* The loop of Storage.get_available_name(name, max_length): while the name
\* exists or is longer than max_length (0: no limit), an alternative name, for
\* which the root is cut by what the alternative exceeds the limit.  dir is
\* the directory below MEDIA_ROOT, k the random strings drawn so far.
RECURSIVE get_available_name_loop(_, _, _, _, _, _, _, _, _)
get_available_name_loop(dir, name, file_root, file_ext, max_length, seed, k, D, F) ==
    LET long(n) == max_length > 0 /\ PathLen(dir \o <<n>>) > max_length
        taken(n) == exists(MEDIA_URL \o dir \o <<n>>, D, F)
        alternative == get_alternative_name(file_root, file_ext,
                                            get_random_string(seed, k))
        truncation == PathLen(dir \o <<alternative>>) - max_length
        cut == IF truncation >= Len(file_root) THEN ""
               ELSE SubSeq(file_root, 1, Len(file_root) - truncation)
    IN  IF ~(taken(name) \/ long(name))
        THEN [out |-> "ok", name |-> name, k |-> k]
        ELSE IF max_length = 0 \/ truncation <= 0
        THEN get_available_name_loop(dir, alternative, file_root, file_ext,
                                     max_length, seed, k + 1, D, F)
        ELSE IF cut = ""
        THEN [out |-> "SuspiciousFileOperation", name |-> name, k |-> k + 1]
        ELSE get_available_name_loop(
                 dir,
                 get_alternative_name(cut, file_ext, get_random_string(seed, k + 1)),
                 cut, file_ext, max_length, seed, k + 2, D, F)

\* Storage.get_available_name(name, max_length)
get_available_name(dir, name, max_length, seed, k, D, F) ==
    get_available_name_loop(dir, name, splitext_root(name), splitext(name),
                            max_length, seed, k, D, F)

\* FileSystemStorage._save: os.makedirs(directory, exist_ok=True)
storage_makedirs(directory, D, F) == makedirs(directory, TRUE, D, F)

\* FileSystemStorage._save: os.open(full_path, O_CREAT | O_EXCL) and the
\* writes of the content
storage_open(path, D, F) ==
    IF Lookup(path, D, F) # "ok"
    THEN [out |-> Lookup(path, D, F), dirs |-> D, files |-> F]
    ELSE IF path \in D \cup F
    THEN [out |-> "FileExistsError", dirs |-> D, files |-> F]
    ELSE [out |-> "ok", dirs |-> D, files |-> F \cup {path}]

\* FileSystemStorage._save(name, content) past os.makedirs: the file is
\* opened; while it exists by then, another available name is taken and
\* opened
RECURSIVE FileSystemStorage_save_open(_, _, _, _, _, _)
FileSystemStorage_save_open(dir, name, seed, k, D, F) ==
    LET again(other) ==
            FileSystemStorage_save_open(dir, other.name, seed, other.k, D, F)
        write(opened) ==
            IF opened.out = "FileExistsError"
            THEN again(get_available_name(dir, name, 0, seed, k, D, F))
            ELSE [out |-> opened.out, name |-> name, k |-> k,
                  dirs |-> opened.dirs, files |-> opened.files]
    IN  write(storage_open(MEDIA_URL \o dir \o <<name>>, D, F))

\* FileSystemStorage._save(name, content): the directory is made, the file
\* opened
FileSystemStorage_save(dir, name, seed, k, D, F) ==
    LET open(made) ==
            IF made.out # "ok"
            THEN [out |-> made.out, name |-> name, k |-> k,
                  dirs |-> made.dirs, files |-> made.files]
            ELSE FileSystemStorage_save_open(dir, name, seed, k,
                                             made.dirs, made.files)
    IN  open(storage_makedirs(MEDIA_URL \o dir, D, F))

\* FieldFile.save(name, content, save=False) up to the name under which the
\* file is to be stored: upload_to, Storage.generate_filename and
\* Storage.get_available_name with the max_length of the field
FieldFile_name(dir, filename, seed, k, D, F) ==
    IF get_valid_name(filename) \in {"", ".", ".."}
    THEN [out |-> "SuspiciousFileOperation", name |-> filename, k |-> k]
    ELSE get_available_name(dir, get_valid_name(filename), FileField_max_length,
                            seed, k, D, F)

\* FieldFile.save(name, content, save=False)
FieldFile_save(dir, filename, seed, k, D, F) ==
    LET store(available) ==
            IF available.out # "ok"
            THEN [out |-> available.out, name |-> filename, k |-> available.k,
                  dirs |-> D, files |-> F]
            ELSE FileSystemStorage_save(dir, available.name, seed, available.k, D, F)
    IN  store(FieldFile_name(dir, filename, seed, k, D, F))

\* The pre_save of bulk_create from file i on: the files are stored one
\* after the other, stored being the names of those stored so far.  A fault
\* ends it, and the files stored before stay.
RECURSIVE bulk_create_pre_save(_, _, _, _, _, _, _, _)
bulk_create_pre_save(dir, names, i, stored, seed, k, D, F) ==
    IF i > Len(names)
    THEN [out |-> "ok", stored |-> stored, dirs |-> D, files |-> F]
    ELSE LET rest(saved) ==
                 IF saved.out # "ok"
                 THEN [out |-> saved.out, stored |-> stored,
                       dirs |-> saved.dirs, files |-> saved.files]
                 ELSE bulk_create_pre_save(dir, names, i + 1,
                                           Append(stored, dir \o <<saved.name>>),
                                           seed, saved.k, saved.dirs, saved.files)
         IN  rest(FieldFile_save(dir, names[i], seed, k, D, F))

\* The INSERT of bulk_create: one row per stored file, refused as a whole
\* when the gallery the rows refer to is not there
bulk_create_insert(G, M, gallery, stored, first) ==
    IF ~\E g \in G : g.id = gallery.id
    THEN [out |-> "IntegrityError", M |-> M, first |-> first]
    ELSE [out |-> "201",
          M |-> M \cup {[id |-> first + i, gallery |-> gallery.id, file |-> stored[i]] :
                          i \in 1..Len(stored)},
          first |-> first + Len(stored)]

\* IMAGE_UPLOAD_PATH and VIDEO_UPLOAD_PATH without the file name, as
\* Storage.generate_filename leaves them (os.path.normpath)
UPLOAD_DIR(kind, username, gallery_name) ==
    Resolve(<<username, kind>> \o Components(gallery_name))

\* {Image,Video}CreateSerializer.create: the gallery of the caller or 404,
\* the names, the files stored below MEDIA_ROOT, one row per file
CreateSerializer_create(kind, G, M, caller, gallery_id, value, seed) ==
    LET found == {g \in OwnGalleries(G, caller) : g.id = gallery_id}
    IN  IF found = {}
        THEN Unchanged("404", G, M)
        ELSE
          LET gallery == CHOOSE g \in found : TRUE
              table == MediaTable(kind)
              answer(saved, inserted) ==
                  [out |-> IF saved.out # "ok" THEN saved.out ELSE inserted.out,
                   G |-> G,
                   M |-> IF saved.out # "ok" THEN M ELSE inserted.M,
                   autoid |-> IF saved.out # "ok" THEN autoid
                              ELSE [autoid EXCEPT ![table] = inserted.first],
                   clock |-> [clock EXCEPT ![table] = @ + Len(value)],
                   dirs |-> saved.dirs, files |-> saved.files]
              insert(saved) ==
                  answer(saved, bulk_create_insert(G, M, gallery, saved.stored,
                                                   autoid[table]))
              save(names) ==
                  insert(bulk_create_pre_save(
                             UPLOAD_DIR(kind, UserRow(gallery.user).username,
                                        gallery.gallery_name),
                             names, 1, <<>>, seed, 0, dirs, files))
          IN  save(generate_unique_filename(kind, UserRow(caller).username,
                       gallery.gallery_name, value, now, clock[table]))

\* {Image,Video}ViewSet.create: field validation, validate(), create()
MediaViewSet_create(kind, G, M, req) ==
    LET field == CreateSerializer_validate_field(kind, req.files)
        whole == CreateSerializer_validate(G, M, req.caller, req.gallery_id, req.files)
    IN  IF field # "ok" THEN Unchanged(field, G, M)
        ELSE IF whole # "ok" THEN Unchanged(whole, G, M)
        ELSE CreateSerializer_create(kind, G, M, req.caller, req.gallery_id, req.files,
                                     req.seed)

\* {Image,Video}ViewSet.destroy: os.remove of the file, then the row
MediaViewSet_destroy(kind, G, M, req) ==
    LET found == {m \in OwnMedia(G, M, req.caller) : m.id = req.pk}
    IN  IF found = {}
        THEN Unchanged("404", G, M)
        ELSE LET instance == CHOOSE m \in found : TRUE
                 rm == Remove(PATH_TEMPLATE(instance.file), dirs, files)
             IN  IF rm.out # "ok"
                 THEN Unchanged(rm.out, G, M)
                 ELSE [out |-> "200", G |-> G, M |-> M \ {instance},
                       autoid |-> autoid, clock |-> clock, dirs |-> rm.dirs, files |-> rm.files]

\* {Image,Video}ViewSet.retrieve
MediaViewSet_retrieve(kind, G, M, req) ==
    IF \E m \in OwnMedia(G, M, req.caller) : m.id = req.pk
    THEN Unchanged("200", G, M)
    ELSE Unchanged("404", G, M)

----------------------------------------------------------------------------
(* The requests of the gallery application as actions.  A request is       *)
(* [op, kind, caller, ...]; Handle answers it on the tables of its kind.   *)

HandleOn(G, M, req) ==
    CASE req.op = "gallery_create" -> GalleryViewSet_create(req.kind, G, M, req)
      [] req.op = "gallery_update" -> GalleryViewSet_update(req.kind, G, M, req)
      [] req.op = "gallery_destroy" -> GalleryViewSet_destroy(req.kind, G, M, req)
      [] req.op = "gallery_retrieve" -> GalleryViewSet_retrieve(req.kind, G, M, req)
      [] req.op = "media_create" -> MediaViewSet_create(req.kind, G, M, req)
      [] req.op = "media_destroy" -> MediaViewSet_destroy(req.kind, G, M, req)
      [] req.op = "media_retrieve" -> MediaViewSet_retrieve(req.kind, G, M, req)

\* The answer to req in the current state.
Handle(req) ==
    HandleOn(IF req.kind = "image" THEN ImageGallery ELSE VideoGallery,
             IF req.kind = "image" THEN Image ELSE Video, req)

\* req is served; at most maxG gallery rows and maxM media rows are ever
\* created, over both kinds.
Serve(req, maxG, maxM) ==
    \E r \in {Handle(req)} :
        /\ Authenticated(req.caller)
        /\ r.autoid["ImageGallery"] + r.autoid["VideoGallery"] <= maxG
        /\ r.autoid["Image"] + r.autoid["Video"] <= maxM
        /\ IF req.kind = "image"
           THEN ImageGallery' = r.G /\ Image' = r.M /\ UNCHANGED <<VideoGallery, Video>>
           ELSE VideoGallery' = r.G /\ Video' = r.M /\ UNCHANGED <<ImageGallery, Image>>
        /\ autoid' = r.autoid
        /\ clock' = r.clock
        /\ dirs' = r.dirs
        /\ files' = r.files
        /\ last' = [op |-> req.kind \o "_" \o req.op, out |-> r.out]
        /\ UNCHANGED <<User, tokenVars, signedOut, now, raceVars>>

Callers == {r.id : r \in User}

\* No limit on the rows created: for the requests that create none.
MaxRows == MaxGalleries + MaxMedia + MaxUploadRows

\* Ids a request may name in a table: those handed out so far and one more.
Ids(table) == 1..(autoid[table] + 1)

GalleryCreate(kind, names, maxG) ==
    \E caller \in Callers, name \in names :
        Serve([op |-> "gallery_create", kind |-> kind, caller |-> caller,
               gallery_name |-> name], maxG, MaxRows)

GalleryUpdate(kind, names) ==
    \E caller \in Callers, pk \in Ids(GalleryTable(kind)), name \in names :
        Serve([op |-> "gallery_update", kind |-> kind, caller |-> caller, pk |-> pk,
               gallery_name |-> name], MaxRows, MaxRows)

GalleryDestroy(kind) ==
    \E caller \in Callers, pk \in Ids(GalleryTable(kind)) :
        Serve([op |-> "gallery_destroy", kind |-> kind, caller |-> caller, pk |-> pk],
              MaxRows, MaxRows)

GalleryRetrieve(kind) ==
    \E caller \in Callers, pk \in Ids(GalleryTable(kind)) :
        Serve([op |-> "gallery_retrieve", kind |-> kind, caller |-> caller, pk |-> pk],
              MaxRows, MaxRows)

\* The upload req passes the validation and finds its gallery: it gets as
\* far as storing its files.
Stores(req) ==
    LET G == IF req.kind = "image" THEN ImageGallery ELSE VideoGallery
        M == IF req.kind = "image" THEN Image ELSE Video
    IN  /\ CreateSerializer_validate_field(req.kind, req.files) = "ok"
        /\ CreateSerializer_validate(G, M, req.caller, req.gallery_id, req.files) = "ok"
        /\ \E g \in OwnGalleries(G, req.caller) : g.id = req.gallery_id

\* An upload is served while the rows it would bring stay within maxM.
MediaCreate(kind, batches, seeds, maxM) ==
    \E caller \in Callers, gallery_id \in {0} \cup Ids(GalleryTable(kind)),
       batch \in batches, seed \in seeds :
        LET req == [op |-> "media_create", kind |-> kind, caller |-> caller,
                    gallery_id |-> gallery_id, files |-> batch, seed |-> seed]
        IN  /\ Authenticated(caller)
            /\ Stores(req) => autoid["Image"] + autoid["Video"] + Len(batch) <= maxM
            /\ Serve(req, MaxRows, maxM)

MediaDestroy(kind) ==
    \E caller \in Callers, pk \in Ids(MediaTable(kind)) :
        Serve([op |-> "media_destroy", kind |-> kind, caller |-> caller, pk |-> pk],
              MaxRows, MaxRows)

MediaRetrieve(kind) ==
    \E caller \in Callers, pk \in Ids(MediaTable(kind)) :
        Serve([op |-> "media_retrieve", kind |-> kind, caller |-> caller, pk |-> pk],
              MaxRows, MaxRows)

----------------------------------------------------------------------------
(* Galleries of two accounts: every gallery and media request, and a       *)
(* change of username, once alice_01 and bob@2023 have signed up.          *)

InitGallery ==
    /\ User = {SignedUp(1, "alice_01", "a@x.io", "Passw0rd!"),
               SignedUp(2, "bob@2023", "b@x.io", "Passw0rd!")}
    /\ ImageGallery = {} /\ Image = {}
    /\ VideoGallery = {} /\ Video = {}
    /\ autoid = [t \in Tables |-> IF t = "User" THEN 2 ELSE 0]
    /\ dirs = {<<"media">>, <<"media", "alice_01">>, <<"media", "bob@2023">>}
    /\ files = {}
    /\ outstanding = {} /\ blacklisted = {} /\ jti = 0
    /\ now = 0
    /\ signedOut = {}
    /\ NoRace
    /\ last = [op |-> "signup", out |-> "201"]

\* One file that passes the field validation and one that does not.
SmallBatches(kind) ==
    IF kind = "image"
    THEN {<<File(".jpg", 1)>>, <<File(".jpg", MAX_SIZE_IMAGE + 1)>>}
    ELSE {<<File(".mp4", 1)>>, <<File(".avi", 1)>>}

\* PUT userprofile by the first account that changes its username alone
UsernameChangeRequests ==
    {[caller |-> r.id, pk |-> r.id,
      data |-> [username |-> u, email |-> r.email, password |-> "Passw0rd!"]] :
        r \in {q \in User : q.id = 1}, u \in {"alice_01", "carol#77"}}

NextGallery ==
    \/ GalleryCreate("image", PlainNames, MaxGalleries)
    \/ GalleryUpdate("image", PlainNames)
    \/ GalleryDestroy("image")
    \/ GalleryRetrieve("image")
    \/ MediaCreate("image", SmallBatches("image"), {"qZ7"}, MaxMedia)
    \/ MediaDestroy("image")
    \/ MediaRetrieve("image")
    \/ GalleryCreate("video", PlainNames, MaxGalleries)
    \/ GalleryUpdate("video", PlainNames)
    \/ GalleryDestroy("video")
    \/ GalleryRetrieve("video")
    \/ MediaCreate("video", SmallBatches("video"), {"qZ7"}, MaxMedia)
    \/ MediaDestroy("video")
    \/ MediaRetrieve("video")
    \/ \E req \in UsernameChangeRequests : UserProfile(req, FALSE)

SpecGallery == InitGallery /\ [][NextGallery]_vars

----------------------------------------------------------------------------
(* Image galleries of the two accounts under every name, those that hold a *)
(* path separator included.                                                *)

\* Names galleries are created under, and names they are renamed to: one of
\* them below a directory that no request creates.
NestedCreateNames == {"album", "trips", "album/x1", "pic"}
NestedUpdateNames == {"album", "album/x1", "album/x/y", "pic"}

NextNested ==
    \/ GalleryCreate("image", NestedCreateNames, MaxGalleries)
    \/ GalleryUpdate("image", NestedUpdateNames)
    \/ GalleryDestroy("image")
    \/ MediaCreate("image", SmallBatches("image"), {"qZ7"}, MaxMedia)
    \/ MediaDestroy("image")

SpecNested == InitGallery /\ [][NextNested]_vars

----------------------------------------------------------------------------
(* Uploads into the galleries of one account: batches large enough to fill *)
(* a gallery, deletions of single items and deletions of the galleries,    *)
(* once alice_01 has one image gallery and one video gallery.              *)

InitUpload ==
    /\ User = {SignedUp(1, "alice_01", "a@x.io", "Passw0rd!")}
    /\ ImageGallery = {[id |-> 1, user |-> 1, gallery_name |-> "album"]}
    /\ VideoGallery = {[id |-> 1, user |-> 1, gallery_name |-> "trips"]}
    /\ Image = {} /\ Video = {}
    /\ autoid = [t \in Tables |-> IF t \in {"Image", "Video"} THEN 0 ELSE 1]
    /\ dirs = Prefixes(GALLERY_PATH("image", "alice_01", "album"))
                \cup Prefixes(GALLERY_PATH("video", "alice_01", "trips"))
    /\ files = {}
    /\ outstanding = {} /\ blacklisted = {} /\ jti = 0
    /\ now = 0
    /\ signedOut = {}
    /\ NoRace
    /\ last = [op |-> "video_gallery_create", out |-> "201"]

\* n files of one extension; the files at the positions in big are one byte
\* over the size limit of the kind, the others are one byte long.
Batch(n, ext, limit, big) ==
    [i \in 1..n |-> File(ext, IF i \in big THEN limit + 1 ELSE 1)]

\* Images come alone, by four or by seven, videos by three or by seven; a
\* batch of eleven, and batches with a file over the size limit or of
\* another format.
UploadBatches(kind) ==
    IF kind = "image"
    THEN {Batch(n, ".jpg", MAX_SIZE_IMAGE, {}) : n \in {1, 4, 7, 11}}
           \cup {Batch(7, ".jpg", MAX_SIZE_IMAGE, {1}),
                 Batch(4, ".jpg", MAX_SIZE_IMAGE, {2})}
    ELSE {Batch(n, ".mp4", MAX_SIZE_VIDEO, {}) : n \in {3, 7, 11}}
           \cup {Batch(7, ".mp4", MAX_SIZE_VIDEO, {3}),
                 Batch(7, ".avi", MAX_SIZE_VIDEO, {})}

\* Media rows deleted one by one or with their gallery so far.
Deleted ==
    autoid["Image"] + autoid["Video"] - Cardinality(Image) - Cardinality(Video)

NextUpload ==
    \/ MediaCreate("image", UploadBatches("image"), {"qZ7"}, MaxUploadRows)
    \/ MediaCreate("video", UploadBatches("video"), {"qZ7"}, MaxUploadRows)
    \/ Deleted < MaxUploadDeletes /\ MediaDestroy("image")
    \/ Deleted < MaxUploadDeletes /\ MediaDestroy("video")
    \/ GalleryDestroy("image")
    \/ GalleryDestroy("video")

SpecUpload == InitUpload /\ [][NextUpload]_vars

----------------------------------------------------------------------------
(* Properties of the account application                                   *)

UserArea(r) == DIRECTORY_PATH \o <<r.username>>

ValidPasswords == {p \in Passwords : validate_password(p)}

\* Every directory media/<name> belongs to the account of that name.
NoStrayUserDirectory ==
    \A d \in dirs : Len(d) = 2 => \E r \in User : UserArea(r) = d

\* C1: a signup with a valid payload whose username is already the username
\* of a User row fails with the "already exists" fault (the FileExistsError
\* of os.makedirs on media/<username>) and leaves the User rows as they were.
C1_SignupExistingUsername ==
    \A req \in SignupRequests :
        (SignupSerializer_is_valid(req) /\ \E r \in User : r.username = req.username)
        => LET res == SignupView_create(req)
           IN  res.out = "FileExistsError" /\ res.User = User

\* A signup has just failed on the directory of an existing account.
C1_Witness ==
    /\ last = [op |-> "signup", out |-> "FileExistsError"]
    /\ User # {}
    /\ NoStrayUserDirectory

\* C2: a refresh token for which sign_out has answered success fails
\* validation in every later state, expired or not: RefreshToken(token) raises
\* and a further sign_out with it is refused.
C2_RevokedTokenStaysInvalid ==
    \A token \in signedOut :
        /\ ~RefreshToken_verify(token)
        /\ \A u \in {r.id : r \in User} :
              SignOutView_create([caller |-> u, refresh |-> token]).out = "400"

\* A token was revoked, has not expired, and a later signin has been served.
C2_Witness ==
    /\ last = [op |-> "signin", out |-> "200"]
    /\ \E t \in outstanding : t.jti \in signedOut /\ now < t.exp

\* C3: the password column of every User row holds a digest made by
\* make_password from a submitted password, never the submitted string.
C3_PasswordStoredHashed ==
    \A r \in User :
        /\ \E p \in ValidPasswords : r.password = make_password(p)
        /\ \A p \in Passwords : r.password # Raw(p)

\* A profile update has written a new password on a row created by signup.
C3_Witness ==
    /\ last.op \in {"userprofile_put", "userprofile_patch"}
    /\ last.out \in {"200", "KeyError"}
    /\ \E r, q \in User : r.password # q.password

----------------------------------------------------------------------------
(* Properties of the gallery application                                   *)

\* The gallery rows and the media rows of a kind, in the current state.
Galleries(kind) == IF kind = "image" THEN ImageGallery ELSE VideoGallery
Media(kind) == IF kind = "image" THEN Image ELSE Video

\* The media rows of gallery id in M.
Children(M, id) == {m \in M : m.gallery = id}

\* The answer res to a request on the tables of kind changes no row, no
\* directory and no file.
Untouched(kind, res) ==
    /\ res.G = Galleries(kind) /\ res.M = Media(kind)
    /\ res.autoid = autoid /\ res.clock = clock
    /\ res.dirs = dirs /\ res.files = files

\* The batch passes the checks made on the files themselves: the first
\* image is at most 2 MiB; every video is an mp4 of at most 10 MiB.
PassesFileChecks(kind, batch) ==
    /\ Len(batch) > 0
    /\ IF kind = "image"
       THEN batch[1].size <= MAX_SIZE_IMAGE
       ELSE \A i \in 1..Len(batch) :
               LOWER[batch[i].ext] = VIDEO_FORMAT /\ batch[i].size <= MAX_SIZE_VIDEO

FileErrors == {"400 required", "400 max_size", "400 format"}

\* The upload of batch into gallery g by its owner.
OwnerUpload(kind, g, batch) ==
    [op |-> "media_create", kind |-> kind, caller |-> g.user,
     gallery_id |-> g.id, files |-> batch, seed |-> "qZ7"]

\* C5: an upload by the owner of a gallery holding k items, of n files with
\* k + n > 10, is refused and creates no row and stores no file; the error is
\* the max-limit error when the batch passes the checks on the files
\* themselves, and the error of those checks otherwise.
C5_OverLimitUploadRefused ==
    \A kind \in Kinds :
      \A g \in Galleries(kind), batch \in UploadBatches(kind) :
        LET res == Handle(OwnerUpload(kind, g, batch))
        IN  Len(batch) + Cardinality(Children(Media(kind), g.id)) > 10 =>
              /\ Untouched(kind, res)
              /\ IF PassesFileChecks(kind, batch)
                 THEN res.out = "400 max_limit"
                 ELSE res.out \in FileErrors

\* C5 as the specification words it: every such upload is refused with the
\* max-limit error.
C5_OverLimitAlwaysMaxLimit ==
    \A kind \in Kinds :
      \A g \in Galleries(kind), batch \in UploadBatches(kind) :
        LET res == Handle(OwnerUpload(kind, g, batch))
        IN  Len(batch) + Cardinality(Children(Media(kind), g.id)) > 10 =>
              Untouched(kind, res) /\ res.out = "400 max_limit"

\* An upload into the image gallery, which holds four images, has just been
\* refused with the max-limit error.
C5_Witness ==
    /\ last = [op |-> "image_media_create", out |-> "400 max_limit"]
    /\ \E g \in ImageGallery : Cardinality(Children(Image, g.id)) = 4

\* C6: every image gallery holds at most 10 Image rows and every video
\* gallery at most 10 Video rows, in every state reached by requests served
\* one at a time.
C6_AtMostTenPerGallery ==
    \A kind \in Kinds :
      \A g \in Galleries(kind) :
        Cardinality(Children(Media(kind), g.id)) <= 10

\* An upload has just filled a gallery to ten items again, after an item of
\* it had been deleted.
C6_Witness ==
    /\ last = [op |-> "image_media_create", out |-> "201"]
    /\ Deleted > 0
    /\ autoid["Image"] > 10
    /\ \E g \in ImageGallery : Cardinality(Children(Image, g.id)) = 10

\* C7: the deletion of a gallery by its owner, in whatever state, succeeds,
\* removes the row and every media row of the gallery, leaves nothing of the
\* gallery's directory tree nor any file stored for one of its items, and a
\* fetch of a former item by anyone answers not-found.
C7_GalleryDeleteRemovesAll ==
    \A kind \in Kinds :
      \A g \in Galleries(kind) :
        LET res == Handle([op |-> "gallery_destroy", kind |-> kind,
                           caller |-> g.user, pk |-> g.id])
            path == Resolve(GALLERY_PATH(kind, UserRow(g.user).username,
                                         g.gallery_name))
            children == Children(Media(kind), g.id)
        IN  /\ res.out = "200"
            /\ \A h \in res.G : h.id # g.id
            /\ Children(res.M, g.id) = {}
            /\ \A q \in res.dirs \cup res.files : ~IsPrefix(path, q)
            /\ \A m \in children, f \in res.files :
                  ~(f[3] = kind /\ f[Len(f)] = m.file[Len(m.file)])
            /\ \A m \in children, caller \in Callers :
                  MediaViewSet_retrieve(kind, res.G, res.M,
                      [caller |-> caller, pk |-> m.id]).out = "404"


\* The requests of caller, on the tables of kind, that name a gallery or a
\* media item that does not exist or belongs to another account.
ForeignGalleryRequests(kind, caller) ==
    LET foreign == {pk \in Ids(GalleryTable(kind)) :
                      ~\E g \in Galleries(kind) : g.id = pk /\ g.user = caller}
    IN  {[op |-> op, kind |-> kind, caller |-> caller, pk |-> pk] :
            op \in {"gallery_retrieve", "gallery_destroy"}, pk \in foreign}
          \cup {[op |-> "gallery_update", kind |-> kind, caller |-> caller,
                 pk |-> pk, gallery_name |-> name] :
                   pk \in foreign, name \in GalleryNames}

ForeignMediaRequests(kind, caller) ==
    LET foreign == {pk \in Ids(MediaTable(kind)) :
                      ~\E m \in Media(kind), g \in Galleries(kind) :
                          m.id = pk /\ g.id = m.gallery /\ g.user = caller}
    IN  {[op |-> op, kind |-> kind, caller |-> caller, pk |-> pk] :
            op \in {"media_retrieve", "media_destroy"}, pk \in foreign}

ForeignUploads(kind, caller) ==
    LET foreign == {id \in {0} \cup Ids(GalleryTable(kind)) :
                      ~\E g \in Galleries(kind) : g.id = id /\ g.user = caller}
    IN  {[op |-> "media_create", kind |-> kind, caller |-> caller,
          gallery_id |-> id, files |-> batch, seed |-> "qZ7"] :
            id \in foreign, batch \in SmallBatches(kind)}

\* C8: a retrieve, rename or delete of a gallery, a retrieve or delete of a
\* media item, or an upload of files that pass the checks on the files
\* themselves, that names an id which does not exist or is not the caller's,
\* answers not-found; an upload of files that fail those checks answers with
\* their error instead; none of them changes a row, a directory or a file.
C8_ForeignIdNotFound ==
    \A kind \in Kinds, caller \in Callers :
        /\ \A req \in ForeignGalleryRequests(kind, caller)
                        \cup ForeignMediaRequests(kind, caller) :
              LET res == Handle(req)
              IN  res.out = "404" /\ Untouched(kind, res)
        /\ \A req \in ForeignUploads(kind, caller) :
              LET res == Handle(req)
              IN  /\ Untouched(kind, res)
                  /\ IF PassesFileChecks(kind, req.files)
                     THEN res.out = "404"
                     ELSE res.out \in FileErrors

\* C8 as the specification words it: every such request answers not-found.
C8_ForeignIdAlwaysNotFound ==
    \A kind \in Kinds, caller \in Callers :
        \A req \in ForeignGalleryRequests(kind, caller)
                     \cup ForeignMediaRequests(kind, caller)
                     \cup ForeignUploads(kind, caller) :
            LET res == Handle(req)
            IN  res.out = "404" /\ Untouched(kind, res)

\* An upload has just been answered not-found while an image gallery holding
\* an image exists, and the other account has no image gallery of its own.
C8_Witness ==
    /\ last = [op |-> "image_media_create", out |-> "404"]
    /\ \E g \in ImageGallery : Children(Image, g.id) # {}
    /\ \E r \in User : \A g \in ImageGallery : g.user # r.id

\* C9: no account has two image galleries of the same gallery_name, nor two
\* video galleries of the same gallery_name, in every state reached by
\* requests served one at a time.
C9_GalleryNameUniquePerOwner ==
    \A kind \in Kinds :
      \A g, h \in Galleries(kind) :
        (g.user = h.user /\ g.gallery_name = h.gallery_name) => g = h

\* A rename has just succeeded, and two accounts each hold an image gallery
\* under the same name.
C9_Witness ==
    /\ last = [op |-> "image_gallery_update", out |-> "201"]
    /\ \E g, h \in ImageGallery :
          g.user # h.user /\ g.gallery_name = h.gallery_name

\* C10: a request to create a gallery is refused for the name only when the
\* account that asks already has a gallery of that kind under that name.
C10_CreateRefusedOnlyForOwnName ==
    \A kind \in Kinds, caller \in Callers, name \in GalleryNames :
        LET res == Handle([op |-> "gallery_create", kind |-> kind,
                           caller |-> caller, gallery_name |-> name])
        IN  res.out = "400 exists" =>
              \E g \in Galleries(kind) : g.user = caller /\ g.gallery_name = name

\* The rename of gallery g, of kind, to name by its owner.
OwnerRename(kind, g, name) ==
    [op |-> "gallery_update", kind |-> kind, caller |-> g.user, pk |-> g.id,
     gallery_name |-> name]

\* C11: for a gallery named A whose directory exists and a name B that is
\* valid and that its owner has no gallery of the kind under, the rename to B
\* and then the rename back to A both succeed, and leave the row named A, the
\* directories and the files as they were, with no directory at the path of B
\* unless one was there before.
C11_RenameRoundTrip ==
    \A kind \in Kinds :
      \A g \in Galleries(kind), B \in GalleryNames :
        LET u == UserRow(g.user).username
            there == Handle(OwnerRename(kind, g, B))
            back == GalleryViewSet_update_on(kind, there.G, there.M, there.dirs,
                        there.files, OwnerRename(kind, g, g.gallery_name))
        IN  ( /\ isdir(GALLERY_PATH(kind, u, g.gallery_name), dirs, files)
              /\ GalleryNameField(B)
              /\ \A h \in Galleries(kind) : h.user = g.user => h.gallery_name # B )
            => /\ there.out = "201" /\ back.out = "201"
               /\ back.G = Galleries(kind)
               /\ back.dirs = dirs /\ back.files = files
               /\ (~isdir(GALLERY_PATH(kind, u, B), dirs, files)
                     => ~isdir(GALLERY_PATH(kind, u, B), back.dirs, back.files))

\* C12: the path stored on every media row is <the owner's username>/<kind>/
\* <the gallery's gallery_name>/<filename>, a file exists at media/ + that
\* path, and the owner's request to delete the item succeeds.
C12_StoredPathFollowsRenames ==
    \A kind \in Kinds :
      \A m \in Media(kind), g \in Galleries(kind) :
        g.id = m.gallery =>
          /\ m.file = UPLOAD_PATH(kind, UserRow(g.user).username, g.gallery_name,
                                  m.file[Len(m.file)])
          /\ PATH_TEMPLATE(m.file) \in files
          /\ Handle([op |-> "media_destroy", kind |-> kind, caller |-> g.user,
                     pk |-> m.id]).out = "200"

\* C13: a signup with a valid payload, a username no account has and an
\* email another account has is refused and changes nothing: no User row is
\* written and no directory is created.
C13_DuplicateEmailChangesNothing ==
    \A req \in SignupRequests :
        ( /\ SignupSerializer_is_valid(req)
          /\ \A r \in User : r.username # req.username
          /\ \E r \in User : r.email = req.email )
        => LET res == SignupView_create(req)
           IN  res.out # "201" /\ res.User = User /\ res.dirs = dirs

\* A signin of a well-formed username no account has
UnknownUserSignins ==
    {req \in SigninRequests :
        /\ Signin_validate_username(req.username) /\ validate_password(req.password)
        /\ \A r \in User : r.username # req.username}

\* A signin of an account's username with a well-formed password that is not
\* the account's
WrongPasswordSignins ==
    {req \in SigninRequests :
        /\ Signin_validate_username(req.username) /\ validate_password(req.password)
        /\ \E r \in User : r.username = req.username
                          /\ ~check_password(req.password, r.password)}

\* C14: a signin with a username no account has and a signin with an
\* account's username and a wrong password get the same answer: the same
\* status, the same error body, no token, no change of state.
C14_SigninFailureUndifferentiated ==
    \A a \in UnknownUserSignins, b \in WrongPasswordSignins :
        /\ SigninView_create(a) = SigninView_create(b)
        /\ SigninView_create(a).out # "200"
        /\ SigninView_create(a).User = User

C14_Witness ==
    /\ UnknownUserSignins # {}
    /\ WrongPasswordSignins # {}
    /\ last = [op |-> "signin", out |-> "400"]

\* C15: a signin with well-formed credentials that match no account is
\* answered with status 401.
C15_BadCredentialsAnswer401 ==
    \A req \in UnknownUserSignins \cup WrongPasswordSignins :
        SigninView_create(req).out = "401"

\* C16: after a successful signin the token field of the account's row is
\* the access token the response returns.
C16_StoredTokenIsReturnedToken ==
    \A req \in SigninRequests :
        LET res == SigninView_create(req)
        IN  res.out = "200" =>
                \A r \in res.User : r.username = req.username => r.token = res.access

\* A contact of exactly ten digits
TenDigits(value) == value = "1234567890"

\* The original reading of C17: the contact "12a456789" is refused with the
\* message "invalid contact".
C17_LetterContactSaysInvalid ==
    \A req \in SignupRequests :
        req.contact = "12a456789" =>
            LET res == SignupView_create(req)
            IN  /\ res.out = "400"
                /\ <<"contact", "invalid contact">> \in res.errors
                /\ res.User = User

\* C17: a signup whose contact is not exactly ten digits is refused with an
\* error on the contact field and writes no User row; the nine-character
\* "12a456789" fails the length bound (the length message), and "invalid
\* contact" is the message for a ten-character contact that is not all
\* digits.
C17_BadContactWritesNoRow ==
    \A req \in SignupRequests :
        LET res == SignupView_create(req)
        IN  /\ ~TenDigits(req.contact) =>
                    /\ res.out = "400"
                    /\ \E e \in res.errors : e[1] = "contact"
                    /\ res.User = User /\ res.dirs = dirs /\ res.autoid = autoid
            /\ req.contact = "12a456789" =>
                    {e \in res.errors : e[1] = "contact"}
                        = {<<"contact", "Ensure this field has at least 10 characters.">>}
            /\ req.contact = "12a4567890" =>
                    {e \in res.errors : e[1] = "contact"} = {<<"contact", "invalid contact">>}

C17_Witness ==
    /\ last = [op |-> "signup", out |-> "400"]
    /\ User # {}
    /\ \E req \in SignupRequests :
          /\ req.contact = "12a456789"
          /\ validate_username(req.username) /\ validate_password(req.password)
          /\ \A r \in User : r.username # req.username /\ r.email # req.email
          /\ SignupView_create(req).out = "400"

\* The batches of one to n files drawn from S.
Batches(S, n) == UNION {[1..k -> S] : k \in 1..n}

\* Videos of either spelling of the extension, of another format, at the
\* size limit and one byte over it.
VideoFiles ==
    {File(".mp4", 1), File(".MP4", MAX_SIZE_VIDEO), File(".avi", 1),
     File(".mp4", MAX_SIZE_VIDEO + 1)}

VideoAllowed(f) == LOWER[f.ext] = VIDEO_FORMAT /\ f.size <= MAX_SIZE_VIDEO

\* C18: a batch of videos passes validate_video exactly when every file of it
\* is an mp4 (in either case of the letters) of a size not above the limit;
\* the owner's upload of a batch with a file, at whatever position, that is
\* not is refused with the format or the size error and creates no Video row
\* and stores no file.
C18_VideoChecksEveryFile ==
    \A batch \in Batches(VideoFiles, 3) \cup UploadBatches("video") :
        /\ VideoCreateSerializer_validate_video(batch) = "ok"
              <=> \A i \in 1..Len(batch) : VideoAllowed(batch[i])
        /\ \A g \in VideoGallery :
              LET res == Handle(OwnerUpload("video", g, batch))
              IN  (\E i \in 1..Len(batch) : ~VideoAllowed(batch[i])) =>
                      /\ res.out \in {"400 format", "400 max_size"}
                      /\ Untouched("video", res)

\* A batch whose third video is over the size limit has just been refused,
\* in a state where the gallery exists and holds videos of earlier uploads.
C18_Witness ==
    /\ last = [op |-> "video_media_create", out |-> "400 max_size"]
    /\ \E g \in VideoGallery : Children(Video, g.id) # {}

\* C19: the owner's upload of a batch of images one of which, at whatever
\* position, is larger than 2 MiB is refused with the max-size error and
\* creates no Image row.
C19_ImageSizeCheckedAtEveryPosition ==
    \A batch \in UploadBatches("image"), g \in ImageGallery :
        LET res == Handle(OwnerUpload("image", g, batch))
        IN  (\E i \in 1..Len(batch) : batch[i].size > 2 * 1024 * 1024) =>
                res.out = "400 max_size" /\ Untouched("image", res)

\* C20: the owner's upload of one mp4 file is refused with the max-size error
\* exactly when the file is of 50 MB or more.
C20_VideoCeilingFiftyMB ==
    \A size \in {1, MAX_SIZE_VIDEO, MAX_SIZE_VIDEO + 1, 20 * 1024 * 1024,
                 50 * 1024 * 1024 - 1, 50 * 1024 * 1024, 50 * 1024 * 1024 + 1} :
      \A g \in VideoGallery :
        LET res == Handle(OwnerUpload("video", g, <<File(".mp4", size)>>))
        IN  res.out = "400 max_size" <=> size >= 50 * 1024 * 1024

\* Batches of one and of two files, of one extension or of two.
SmallUploads(kind) ==
    IF kind = "image"
    THEN Batches({File(".jpg", 1)}, 2)
    ELSE Batches({File(".mp4", 1), File(".MP4", 1)}, 2)

\* C21: after the owner's upload of a batch of n >= 1 files, the name of the
\* file stored for the i-th file of the batch is <username>-<gallery_name>-
\* <day>-<month>-<year>-<hour>-<minute>-<second>-<microsecond><ext>, ext being
\* the extension of the i-th file, for images and for videos.
C21_FilenameOfTheForm ==
    \A kind \in Kinds, seed \in Seeds :
      \A g \in Galleries(kind), batch \in SmallUploads(kind) \cup UploadBatches(kind) :
        LET res == Handle([OwnerUpload(kind, g, batch) EXCEPT !.seed = seed])
            first == autoid[MediaTable(kind)]
            called == clock[MediaTable(kind)]
        IN  res.out = "201" =>
              \A m \in res.M \ Media(kind) :
                \E stamp \in (called + 1)..(called + Len(batch)) :
                  m.file[Len(m.file)] =
                      FILENAME_FORMAT(UserRow(g.user).username, g.gallery_name,
                                      Timestamp(now, stamp), batch[m.id - first].ext)

----------------------------------------------------------------------------
(***************************************************************************)
(* Requests served at the same time.  Every worker serves one request at a *)
(* time; a request that writes does so in the steps of its handler, each   *)
(* query and each filesystem call being one step, and the steps of two     *)
(* workers interleave.  The handlers hold no lock and open no transaction. *)
(***************************************************************************)

\* Calls of timezone.now() for a file name in one run, and requests that
\* the workers take up in one run.
MaxRaceStamps == 3
MaxRaceRequests == 3

\* Images, uploaded one by one, that the gallery holds when a run begins: a
\* single one, or so many that two uploads of at most two files fit, each
\* by its own count.
RaceStart == 1
RaceStartFull == MAX_LIMIT - 2

RaceBatches == {Batch(n, ".jpg", MAX_SIZE_IMAGE, {}) : n \in {1, 2}}

\* The name under which image i of the start is stored.
RaceStored(i) ==
    get_valid_name(generate_unique_filename("image", "alice_01", "album",
                                            <<File(".jpg", 1)>>, 1, i - 1)[1])

\* alice_01 has the image gallery album with start images and the video
\* gallery trips; the clock is past its first tick.
InitRace(start) ==
    /\ User = {SignedUp(1, "alice_01", "a@x.io", "Passw0rd!")}
    /\ ImageGallery = {[id |-> 1, user |-> 1, gallery_name |-> "album"]}
    /\ VideoGallery = {[id |-> 1, user |-> 1, gallery_name |-> "trips"]}
    /\ Image = {[id |-> i, gallery |-> 1,
                 file |-> UPLOAD_PATH("image", "alice_01", "album", RaceStored(i))] :
                   i \in 1..start}
    /\ Video = {}
    /\ autoid = [t \in Tables |-> IF t = "Image" THEN start
                                  ELSE IF t = "Video" THEN 0 ELSE 1]
    /\ dirs = Prefixes(GALLERY_PATH("image", "alice_01", "album"))
                \cup Prefixes(GALLERY_PATH("video", "alice_01", "trips"))
    /\ files = {PATH_TEMPLATE(UPLOAD_PATH("image", "alice_01", "album", RaceStored(i))) :
                  i \in 1..start}
    /\ outstanding = {} /\ blacklisted = {} /\ jti = 0
    /\ now = 1
    /\ signedOut = {}
    /\ inflight = [w \in Workers |-> Idle] /\ overlapped = FALSE /\ begun = 0
    /\ clock = [t \in {"Image", "Video"} |-> IF t = "Image" THEN start ELSE 0]
    /\ last = [op |-> "image_media_create", out |-> "201"]

RaceRequests(kind) ==
    [op : {"gallery_update"}, kind : {kind}, caller : Callers,
     pk : Ids(GalleryTable(kind)), gallery_name : PlainNames]
    \cup [op : {"gallery_destroy"}, kind : {kind}, caller : Callers,
          pk : Ids(GalleryTable(kind))]
    \cup [op : {"media_create"}, kind : {kind}, caller : Callers,
          gallery_id : Ids(GalleryTable(kind)), files : RaceBatches, seed : {"qZ7"}]

SetTables(kind, G, M) ==
    IF kind = "image"
    THEN ImageGallery' = G /\ Image' = M /\ UNCHANGED <<VideoGallery, Video>>
    ELSE VideoGallery' = G /\ Video' = M /\ UNCHANGED <<ImageGallery, Image>>

Answer(req, out) == last' = [op |-> req.kind \o "_" \o req.op, out |-> out]

\* Worker w is at step pc of a request op.
At(w, op, pc) == inflight[w] # Idle /\ inflight[w].op = op /\ inflight[w].pc = pc

\* Worker w takes up a request, while those of the run stay within
\* MaxRaceRequests: t is what it holds of it.
Taken(w, t) ==
    /\ begun < MaxRaceRequests
    /\ inflight' = [inflight EXCEPT ![w] = t]
    /\ overlapped' = (overlapped \/ \E v \in Workers \ {w} : inflight[v] # Idle)
    /\ begun' = begun + 1
    /\ UNCHANGED last

\* Worker w goes on to its next step, holding t.
Goes(w, t) ==
    /\ inflight' = [inflight EXCEPT ![w] = t]
    /\ UNCHANGED <<overlapped, begun, last>>

\* Worker w answers its request.
Ends(w, out) ==
    /\ inflight' = [inflight EXCEPT ![w] = Idle]
    /\ Answer(inflight[w].req, out)
    /\ UNCHANGED <<overlapped, begun>>

\* What a worker holds of its request once a call of another worker has
\* left the directories D and the files F, having renamed old to new (old
\* is Gone when it has not) and having made the directories and files made:
\* the directories a shutil.rmtree has open and the result of its os.lstat
\* refer to what they did, and what is made once the result of os.lstat is
\* gone may have its inode.
Held(t, old, new, made, D, F) ==
    IF t.op # "gallery_destroy" \/ t.pc # "rmtree" THEN t
    ELSE LET orig == Follow(t.rm.orig, old, new, D, F)
         IN  [t EXCEPT
                !.rm.orig = orig,
                !.rm.fresh =
                    IF t.rm.pc = "open" /\ orig = Gone
                    THEN ({Follow(q, old, new, D, F) : q \in @} \ {Gone}) \cup made
                    ELSE {},
                !.rm.stack = [n \in DOMAIN @ |->
                                [@[n] EXCEPT !.at = Follow(@, old, new, D, F)]]]

\* A filesystem call of worker w has left the directories D and the files
\* F, having renamed old to new (old is Gone when it has not).  With out
\* "go" the worker goes on, holding t; any other out is its answer.
Called(w, out, t, old, new, D, F) ==
    /\ dirs' = D
    /\ files' = F
    /\ inflight' = [v \in Workers |->
                      IF v # w
                      THEN Held(inflight[v], old, new,
                                IF old = Gone THEN (D \cup F) \ (dirs \cup files)
                                ELSE {},
                                D, F)
                      ELSE IF out = "go" THEN t ELSE Idle]
    /\ IF out = "go" THEN UNCHANGED last ELSE Answer(inflight[w].req, out)
    /\ UNCHANGED <<overlapped, begun>>

\* The folder of the gallery that worker w has read.
RaceFolder(t) ==
    GALLERY_PATH(t.req.kind, UserRow(t.req.caller).username, t.instance.gallery_name)

\* update() and destroy() of a gallery view set: get_object(), the one query
\* that reads the instance
RaceGetObject(w, req) ==
    /\ inflight[w] = Idle
    /\ req.op \in {"gallery_update", "gallery_destroy"}
    /\ Authenticated(req.caller)
    /\ LET found == {g \in OwnGalleries(Galleries(req.kind), req.caller) : g.id = req.pk}
       IN  IF found = {}
           THEN Answer(req, "404") /\ UNCHANGED raceVars
           ELSE Taken(w, [op |-> req.op,
                          pc |-> IF req.op = "gallery_update" THEN "is_valid" ELSE "exists",
                          req |-> req, instance |-> CHOOSE g \in found : TRUE,
                          rm |-> Idle])
    /\ UNCHANGED <<dbVars, fsVars, tokenVars, signedOut, now, clock>>

\* update(): serializer.is_valid(), the field and then the query of
\* validate_gallery_name
RaceUpdateIsValid(w) ==
    /\ At(w, "gallery_update", "is_valid")
    /\ LET t == inflight[w]
       IN  IF ~GalleryNameField(t.req.gallery_name)
           THEN Ends(w, "400")
           ELSE IF ~GalleryUpdateSerializer_validate_gallery_name(
                        Galleries(t.req.kind), t.req.caller, t.req.gallery_name)
           THEN Ends(w, "400 exists")
           ELSE Goes(w, [t EXCEPT !.pc = "row"])
    /\ UNCHANGED <<dbVars, fsVars, tokenVars, signedOut, now, clock>>

\* update(): the row is written
RaceUpdateRow(w) ==
    /\ At(w, "gallery_update", "row")
    /\ LET t == inflight[w]
       IN  /\ SetTables(t.req.kind,
                        GalleryUpdateSerializer_update_row(Galleries(t.req.kind),
                            t.instance.id, t.req.gallery_name),
                        Media(t.req.kind))
           /\ Goes(w, [t EXCEPT !.pc = "rename"])
    /\ UNCHANGED <<User, autoid, fsVars, tokenVars, signedOut, now, clock>>

\* update(): os.rename of the folder of the name read by get_object()
RaceUpdateRename(w) ==
    /\ At(w, "gallery_update", "rename")
    /\ LET t == inflight[w]
           username == UserRow(t.req.caller).username
           renamed(rn) ==
               Called(w, IF rn.out = "ok" THEN "go" ELSE rn.out,
                      [t EXCEPT !.pc = "get"],
                      IF rn.out = "ok"
                      THEN Resolve(GALLERY_PATH(t.req.kind, username,
                                                t.instance.gallery_name))
                      ELSE Gone,
                      Resolve(GALLERY_PATH(t.req.kind, username, t.req.gallery_name)),
                      rn.dirs, rn.files)
       IN  renamed(GalleryUpdateSerializer_update_rename(t.req.kind, dirs, files,
                       username, t.instance.gallery_name, t.req.gallery_name))
    /\ UNCHANGED <<dbVars, tokenVars, signedOut, now, clock>>

\* update(): <Gallery>.objects.get(id=instance.id), then the answer
RaceUpdateGet(w) ==
    /\ At(w, "gallery_update", "get")
    /\ LET t == inflight[w]
       IN  IF \E g \in Galleries(t.req.kind) : g.id = t.instance.id
           THEN Ends(w, "201")
           ELSE Ends(w, "DoesNotExist")
    /\ UNCHANGED <<dbVars, fsVars, tokenVars, signedOut, now, clock>>

\* destroy(): os.path.exists(folder_path)
RaceDestroyExists(w) ==
    /\ At(w, "gallery_destroy", "exists")
    /\ LET t == inflight[w]
       IN  IF exists(RaceFolder(t), dirs, files)
           THEN Goes(w, [t EXCEPT !.pc = "rmtree", !.rm = rmtree_begin(RaceFolder(t))])
           ELSE Goes(w, [t EXCEPT !.pc = "row"])
    /\ UNCHANGED <<dbVars, fsVars, tokenVars, signedOut, now, clock>>

\* destroy(): one call of shutil.rmtree(folder_path); a listing gives its
\* entries in no order that the program fixes, and when the folder that
\* os.lstat saw was removed and made again by another request, os.open finds
\* the inode that os.lstat saw (the run goes on and removes the new folder)
\* or another (OSError)
RaceDestroyRmtree(w) ==
    /\ At(w, "gallery_destroy", "rmtree")
    /\ LET t == inflight[w]
           called(r) ==
               Called(w, IF r.out = "ok" THEN "go" ELSE r.out,
                      IF r.out = "ok" THEN [t EXCEPT !.pc = "row", !.rm = Idle]
                      ELSE [t EXCEPT !.rm = r.rm],
                      Gone, Gone, r.dirs, r.files)
       IN  \E e \in rmtree_entries(t.rm) :
             \E reused \in rmtree_reused(t.rm, rmtree_path(t.rm)) :
               called(rmtree_call(t.rm, e, reused, dirs, files))
    /\ UNCHANGED <<dbVars, tokenVars, signedOut, now, clock>>

\* destroy(): instance.delete(), which cascades, then the answer
RaceDestroyRow(w) ==
    /\ At(w, "gallery_destroy", "row")
    /\ LET t == inflight[w]
       IN  /\ SetTables(t.req.kind,
                        {g \in Galleries(t.req.kind) : g.id # t.instance.id},
                        {m \in Media(t.req.kind) : m.gallery # t.instance.id})
           /\ Ends(w, "200")
    /\ UNCHANGED <<User, autoid, fsVars, tokenVars, signedOut, now, clock>>

\* create() of a gallery view set: serializer.is_valid(), the field and
\* then the query of validate_gallery_name
RaceCreateIsValid(w, req) ==
    /\ inflight[w] = Idle
    /\ req.op = "gallery_create"
    /\ Authenticated(req.caller)
    /\ IF ~GalleryNameField(req.gallery_name)
       THEN Answer(req, "400") /\ UNCHANGED raceVars
       ELSE IF ~GalleryCreateSerializer_validate_gallery_name(
                    req.kind, Galleries(req.kind), req.caller, req.gallery_name)
       THEN Answer(req, "400 exists") /\ UNCHANGED raceVars
       ELSE Taken(w, [op |-> req.op, pc |-> "row", req |-> req, mk |-> Idle])
    /\ UNCHANGED <<dbVars, fsVars, tokenVars, signedOut, now, clock>>

\* create() of a gallery serializer: <Gallery>.objects.create
RaceCreateRow(w) ==
    /\ At(w, "gallery_create", "row")
    /\ LET t == inflight[w]
           table == GalleryTable(t.req.kind)
       IN  /\ SetTables(t.req.kind,
                        Galleries(t.req.kind)
                          \cup {[id |-> autoid[table] + 1, user |-> t.req.caller,
                                 gallery_name |-> t.req.gallery_name]},
                        Media(t.req.kind))
           /\ autoid' = [autoid EXCEPT ![table] = @ + 1]
           /\ Goes(w, [t EXCEPT
                         !.pc = "makedirs",
                         !.mk = makedirs_begin(
                                    GALLERY_PATH(t.req.kind,
                                                 UserRow(t.req.caller).username,
                                                 t.req.gallery_name), FALSE)])
    /\ UNCHANGED <<User, fsVars, tokenVars, signedOut, now, clock>>

\* create() of a gallery serializer: one call of os.makedirs(path,
\* exist_ok=False); the answer follows the last
RaceCreateMakedirs(w) ==
    /\ At(w, "gallery_create", "makedirs")
    /\ LET t == inflight[w]
           called(r) ==
               Called(w, IF r.out = "ok" THEN "201" ELSE r.out,
                      [t EXCEPT !.mk = r.mk], Gone, Gone, r.dirs, r.files)
       IN  called(makedirs_call(t.mk, dirs, files))
    /\ UNCHANGED <<dbVars, tokenVars, signedOut, now, clock>>

\* Time stamps an upload that a worker holds is still to draw.
ToDraw(t) ==
    IF t.op = "media_create" /\ t.pc \in {"count", "create"} THEN Len(t.req.files)
    ELSE IF t.op = "media_create" /\ t.pc = "now" THEN Len(t.req.files) - t.i + 1
    ELSE 0

\* create() of a media view set: serializer.is_valid() up to the first query
\* of validate(), get_object_or_404.  An upload is taken up while the calls
\* of timezone.now() stay within maxStamps.
RaceUploadIsValid(w, req, maxStamps) ==
    /\ inflight[w] = Idle
    /\ req.op = "media_create"
    /\ Authenticated(req.caller)
    /\ \A v \in Workers \ {w} :
         clock[MediaTable(req.kind)] + ToDraw(inflight[v]) + Len(req.files)
             <= maxStamps
    /\ LET field == CreateSerializer_validate_field(req.kind, req.files)
           found == {g \in OwnGalleries(Galleries(req.kind), req.caller) :
                       g.id = req.gallery_id}
           held(pc) == [op |-> req.op, pc |-> pc, req |-> req, gallery |-> Idle,
                        names |-> <<>>, i |-> 1, stamp |-> 0, drew |-> FALSE,
                        name |-> "", stored |-> <<>>, k |-> 0, mk |-> Idle]
       IN  IF field # "ok"
           THEN Answer(req, field) /\ UNCHANGED raceVars
           ELSE IF req.gallery_id = 0
           THEN Taken(w, held("create"))
           ELSE IF found = {}
           THEN Answer(req, "404") /\ UNCHANGED raceVars
           ELSE Taken(w, held("count"))
    /\ UNCHANGED <<dbVars, fsVars, tokenVars, signedOut, now, clock>>

\* validate(): the count of the rows of the gallery, with the batch
RaceUploadCount(w) ==
    /\ At(w, "media_create", "count")
    /\ LET t == inflight[w]
       IN  IF CreateSerializer_exceeds(
                  Len(t.req.files),
                  Cardinality(Children(Media(t.req.kind), t.req.gallery_id)))
           THEN Ends(w, "400 max_limit")
           ELSE Goes(w, [t EXCEPT !.pc = "create"])
    /\ UNCHANGED <<dbVars, fsVars, tokenVars, signedOut, now, clock>>

\* create(): get_object_or_404; the loop that names the files comes next
RaceUploadCreate(w) ==
    /\ At(w, "media_create", "create")
    /\ LET t == inflight[w]
           found == {g \in OwnGalleries(Galleries(t.req.kind), t.req.caller) :
                       g.id = t.req.gallery_id}
           gallery == CHOOSE g \in found : TRUE
       IN  IF found = {}
           THEN Ends(w, "404")
           ELSE Goes(w, [t EXCEPT !.pc = "now", !.gallery = gallery,
                                  !.names = UploadedNames(t.req.files), !.i = 1])
    /\ UNCHANGED <<dbVars, fsVars, tokenVars, signedOut, now, clock>>

\* The microseconds that timezone.now() of worker w may fall in: the next
\* after the last that a call fell in, or that one itself when it is the
\* call of another worker which has made no call or query since (drew) and
\* w has not read it before.
RaceStamps(w, table) ==
    {clock[table] + 1}
    \cup {clock[table] :
            v \in {v \in Workers \ {w} :
                     /\ inflight[w].stamp # clock[table]
                     /\ inflight[v] # Idle
                     /\ inflight[v].op = "media_create"
                     /\ MediaTable(inflight[v].req.kind) = table
                     /\ inflight[v].drew
                     /\ inflight[v].stamp = clock[table]}}

\* create(): one round of the loop that names the files,
\* generate_unique_image with its timezone.now() and the name of file i
RaceUploadNow(w) ==
    /\ At(w, "media_create", "now")
    /\ LET t == inflight[w]
           table == MediaTable(t.req.kind)
       IN  \E stamp \in RaceStamps(w, table) :
             /\ clock' = [clock EXCEPT ![table] = stamp]
             /\ Goes(w, [t EXCEPT
                           !.names = AssignName(t.req.kind,
                                                UserRow(t.req.caller).username,
                                                t.gallery.gallery_name, t.names,
                                                t.i, now, stamp),
                           !.stamp = stamp, !.drew = TRUE,
                           !.i = IF t.i = Len(t.names) THEN 1 ELSE t.i + 1,
                           !.pc = IF t.i = Len(t.names) THEN "name" ELSE "now"])
    /\ UNCHANGED <<dbVars, fsVars, tokenVars, signedOut, now>>

\* Worker w, which holds t, makes its first call past the loop that names
\* the files.  When its last timezone.now() fell in the microsecond that was
\* read last, that microsecond is over by now: no later call falls in it.
Passed(w, t, to) ==
    [v \in Workers |->
        IF v = w THEN to
        ELSE IF /\ t.drew /\ t.stamp = clock[MediaTable(t.req.kind)]
                /\ inflight[v] # Idle /\ inflight[v].op = "media_create"
        THEN [inflight[v] EXCEPT !.drew = FALSE]
        ELSE inflight[v]]

\* The directory below MEDIA_ROOT for the files of the upload t.
RaceUploadDirectory(t) ==
    UPLOAD_DIR(t.req.kind, UserRow(t.gallery.user).username, t.gallery.gallery_name)

\* bulk_create, pre_save of file i: FieldFile.save takes the name under which
\* the file is to be stored
RaceUploadName(w) ==
    /\ At(w, "media_create", "name")
    /\ LET t == inflight[w]
           available == FieldFile_name(RaceUploadDirectory(t), t.names[t.i],
                                       t.req.seed, t.k, dirs, files)
       IN  IF available.out # "ok"
           THEN /\ inflight' = Passed(w, t, Idle)
                /\ Answer(t.req, available.out)
                /\ UNCHANGED <<overlapped, begun>>
           ELSE /\ inflight' =
                     Passed(w, t,
                            [t EXCEPT
                               !.pc = "makedirs", !.name = available.name,
                               !.k = available.k, !.drew = FALSE,
                               !.mk = makedirs_begin(
                                          MEDIA_URL \o RaceUploadDirectory(t), TRUE)])
                /\ UNCHANGED <<overlapped, begun, last>>
    /\ UNCHANGED <<dbVars, fsVars, tokenVars, signedOut, now, clock>>

\* bulk_create, pre_save of file i: one call of the os.makedirs(directory,
\* exist_ok=True) of FileSystemStorage._save
RaceUploadMakedirs(w) ==
    /\ At(w, "media_create", "makedirs")
    /\ LET t == inflight[w]
           called(r) ==
               Called(w, IF r.out = "ok" THEN "go" ELSE r.out,
                      IF r.out = "ok" THEN [t EXCEPT !.pc = "open", !.mk = Idle]
                      ELSE [t EXCEPT !.mk = r.mk],
                      Gone, Gone, r.dirs, r.files)
       IN  called(makedirs_call(t.mk, dirs, files))
    /\ UNCHANGED <<dbVars, tokenVars, signedOut, now, clock>>

\* bulk_create, pre_save of file i: FileSystemStorage._save opens the file
\* and writes it; when the file exists, another name is taken for the next
\* os.open
RaceUploadOpen(w) ==
    /\ At(w, "media_create", "open")
    /\ LET t == inflight[w]
           dir == RaceUploadDirectory(t)
           other == get_available_name(dir, t.name, 0, t.req.seed, t.k, dirs, files)
           opened(r) ==
               Called(w, IF r.out \in {"ok", "FileExistsError"} THEN "go" ELSE r.out,
                      IF r.out = "FileExistsError"
                      THEN [t EXCEPT !.name = other.name, !.k = other.k]
                      ELSE [t EXCEPT
                              !.pc = IF t.i = Len(t.names) THEN "insert" ELSE "name",
                              !.i = @ + 1,
                              !.stored = Append(@, dir \o <<t.name>>)],
                      Gone, Gone, r.dirs, r.files)
       IN  opened(storage_open(MEDIA_URL \o dir \o <<t.name>>, dirs, files))
    /\ UNCHANGED <<dbVars, tokenVars, signedOut, now, clock>>

\* bulk_create: the INSERT of the rows, then the answer
RaceUploadInsert(w) ==
    /\ At(w, "media_create", "insert")
    /\ LET t == inflight[w]
           table == MediaTable(t.req.kind)
           inserted == bulk_create_insert(Galleries(t.req.kind), Media(t.req.kind),
                                          t.gallery, t.stored, autoid[table])
       IN  /\ SetTables(t.req.kind, Galleries(t.req.kind), inserted.M)
           /\ autoid' = [autoid EXCEPT ![table] = inserted.first]
           /\ Ends(w, inserted.out)
    /\ UNCHANGED <<User, fsVars, tokenVars, signedOut, now, clock>>

NextRace ==
    \/ \E w \in Workers, req \in RaceRequests("image") : RaceGetObject(w, req)
    \/ \E w \in Workers : RaceUpdateIsValid(w)
    \/ \E w \in Workers : RaceUpdateRow(w)
    \/ \E w \in Workers : RaceUpdateRename(w)
    \/ \E w \in Workers : RaceUpdateGet(w)
    \/ \E w \in Workers : RaceDestroyExists(w)
    \/ \E w \in Workers : RaceDestroyRmtree(w)
    \/ \E w \in Workers : RaceDestroyRow(w)
    \/ \E w \in Workers, req \in RaceRequests("image") :
          RaceUploadIsValid(w, req, RaceStart + MaxRaceStamps)
    \/ \E w \in Workers : RaceUploadCount(w)
    \/ \E w \in Workers : RaceUploadCreate(w)
    \/ \E w \in Workers : RaceUploadNow(w)
    \/ \E w \in Workers : RaceUploadName(w)
    \/ \E w \in Workers : RaceUploadMakedirs(w)
    \/ \E w \in Workers : RaceUploadOpen(w)
    \/ \E w \in Workers : RaceUploadInsert(w)

SpecRace == InitRace(RaceStart) /\ [][NextRace]_vars

\* Uploads alone, into a gallery that is nearly full.
NextRaceUpload ==
    \/ \E w \in Workers, req \in RaceRequests("image") :
          RaceUploadIsValid(w, req, RaceStartFull + MaxRaceStamps)
    \/ \E w \in Workers : RaceUploadCount(w)
    \/ \E w \in Workers : RaceUploadCreate(w)
    \/ \E w \in Workers : RaceUploadNow(w)
    \/ \E w \in Workers : RaceUploadName(w)
    \/ \E w \in Workers : RaceUploadMakedirs(w)
    \/ \E w \in Workers : RaceUploadOpen(w)
    \/ \E w \in Workers : RaceUploadInsert(w)

SpecRaceUpload == InitRace(RaceStartFull) /\ [][NextRaceUpload]_vars

\* A gallery whose folder lies in the folder of another: alice_01 has the
\* image galleries album, with one image, and album/x1.
InitRaceNested ==
    /\ User = {SignedUp(1, "alice_01", "a@x.io", "Passw0rd!")}
    /\ ImageGallery = {[id |-> 1, user |-> 1, gallery_name |-> "album"],
                       [id |-> 2, user |-> 1, gallery_name |-> "album/x1"]}
    /\ VideoGallery = {}
    /\ Image = {[id |-> 1, gallery |-> 1,
                 file |-> UPLOAD_PATH("image", "alice_01", "album", RaceStored(1))]}
    /\ Video = {}
    /\ autoid = [t \in Tables |-> IF t = "ImageGallery" THEN 2
                                  ELSE IF t \in {"Image", "User"} THEN 1 ELSE 0]
    /\ dirs = Prefixes(GALLERY_PATH("image", "alice_01", "album/x1"))
    /\ files = {PATH_TEMPLATE(UPLOAD_PATH("image", "alice_01", "album", RaceStored(1)))}
    /\ outstanding = {} /\ blacklisted = {} /\ jti = 0
    /\ now = 1
    /\ signedOut = {}
    /\ inflight = [w \in Workers |-> Idle] /\ overlapped = FALSE /\ begun = 0
    /\ clock = [t \in {"Image", "Video"} |-> IF t = "Image" THEN 1 ELSE 0]
    /\ last = [op |-> "image_gallery_create", out |-> "201"]

\* Galleries made and deleted and single images uploaded, below one
\* another; a gallery that was deleted can be made again.
RaceNestedRequests ==
    [op : {"gallery_create"}, kind : {"image"}, caller : Callers,
     gallery_name : {"album/x1", "album/x2"}]
    \cup [op : {"gallery_destroy"}, kind : {"image"}, caller : Callers,
          pk : Ids("ImageGallery")]
    \cup [op : {"media_create"}, kind : {"image"}, caller : Callers,
          gallery_id : Ids("ImageGallery"),
          files : {Batch(1, ".jpg", MAX_SIZE_IMAGE, {})}, seed : {"qZ7"}]

NextRaceNested ==
    \/ \E w \in Workers, req \in RaceNestedRequests : RaceCreateIsValid(w, req)
    \/ \E w \in Workers : RaceCreateRow(w)
    \/ \E w \in Workers : RaceCreateMakedirs(w)
    \/ \E w \in Workers, req \in RaceNestedRequests : RaceGetObject(w, req)
    \/ \E w \in Workers : RaceDestroyExists(w)
    \/ \E w \in Workers : RaceDestroyRmtree(w)
    \/ \E w \in Workers : RaceDestroyRow(w)
    \/ \E w \in Workers, req \in RaceNestedRequests :
          RaceUploadIsValid(w, req, RaceStart + MaxRaceStamps)
    \/ \E w \in Workers : RaceUploadCount(w)
    \/ \E w \in Workers : RaceUploadCreate(w)
    \/ \E w \in Workers : RaceUploadNow(w)
    \/ \E w \in Workers : RaceUploadName(w)
    \/ \E w \in Workers : RaceUploadMakedirs(w)
    \/ \E w \in Workers : RaceUploadOpen(w)
    \/ \E w \in Workers : RaceUploadInsert(w)

SpecRaceNested == InitRaceNested /\ [][NextRaceNested]_vars

----------------------------------------------------------------------------
(* Properties of requests served at the same time                          *)

\* No request is in the middle.
Quiescent == \A w \in Workers : inflight[w] = Idle

\* A gallery row whose name has no directory at the matching path.
RowWithoutDirectory(kind) ==
    \E g \in Galleries(kind) :
        ~isdir(GALLERY_PATH(kind, UserRow(g.user).username, g.gallery_name), dirs, files)

\* A gallery directory with no row of that owner and name.
DirectoryWithoutRow(kind) ==
    \E r \in User, name \in PlainNames :
        /\ isdir(GALLERY_PATH(kind, r.username, name), dirs, files)
        /\ ~\E g \in Galleries(kind) : g.user = r.id /\ g.gallery_name = name

C23_AtMostTenWhenInterleaved ==
    \A g \in ImageGallery : Cardinality(Children(Image, g.id)) <= MAX_LIMIT

\* The renames by its owner of a gallery whose directory is absent, to a
\* name that passes validation.
RenamesWithoutDirectory(kind) ==
    {<<g, name>> \in Galleries(kind) \X GalleryNames :
        /\ ~isdir(GALLERY_PATH(kind, UserRow(g.user).username, g.gallery_name), dirs, files)
        /\ GalleryNameField(name)
        /\ GalleryUpdateSerializer_validate_gallery_name(Galleries(kind), g.user, name)}

\* C24: the rename of a gallery whose old directory is absent fails with the
\* not-found fault, and is not rolled back: the gallery row carries the new
\* name all the same, and the directories and the files are as before.
C24_RenameWithoutDirectoryKeepsNewName ==
    \A kind \in Kinds :
      \A p \in RenamesWithoutDirectory(kind) :
        LET res == Handle(OwnerRename(kind, p[1], p[2]))
        IN  /\ res.out = "FileNotFoundError"
            /\ \E g \in res.G : g.id = p[1].id /\ g.gallery_name = p[2]
            /\ res.dirs = dirs /\ res.files = files

\* The media rows of kind whose file is absent, each with its gallery.
MediaWithoutFile(kind) ==
    {<<m, g>> \in Media(kind) \X Galleries(kind) :
        g.id = m.gallery /\ PATH_TEMPLATE(m.file) \notin files}

\* C25: the deletion by its owner of an image or a video whose file is absent
\* fails with the not-found fault of os.remove, and deletes no row and
\* changes neither the directories nor the files.
C25_DeleteWithoutFileKeepsRow ==
    \A kind \in Kinds :
      \A p \in MediaWithoutFile(kind) :
        LET res == Handle([op |-> "media_destroy", kind |-> kind,
                           caller |-> p[2].user, pk |-> p[1].id])
        IN  res.out = "FileNotFoundError" /\ Untouched(kind, res)

\* The deletion of an image whose file is absent has just failed, and the
\* row is there.
C25_Witness ==
    /\ last = [op |-> "image_media_destroy", out |-> "FileNotFoundError"]
    /\ MediaWithoutFile("image") # {}

\* The original reading of C26: no two VideoGallery rows, of whatever
\* owners, have the same gallery_name.
C26_VideoNamesGloballyUnique ==
    \A g, h \in VideoGallery : g.gallery_name = h.gallery_name => g = h

\* C26: video gallery names are unique per owner, not over all owners: no
\* account has two video galleries of one name, and a create of a name that
\* a video gallery of any account has is refused; a rename, checked against
\* the caller's galleries alone, can give two accounts the same name
\* (C26_Witness).
C26_VideoNamesUniquePerOwner ==
    /\ \A g, h \in VideoGallery :
          (g.user = h.user /\ g.gallery_name = h.gallery_name) => g = h
    /\ \A caller \in Callers, name \in PlainNames :
          (GalleryNameField(name) /\ \E g \in VideoGallery : g.gallery_name = name)
          => LET res == Handle([op |-> "gallery_create", kind |-> "video",
                                caller |-> caller, gallery_name |-> name])
             IN  res.out = "400 exists" /\ Untouched("video", res)

\* A rename has just succeeded, and two accounts each hold a video gallery
\* under the same name.
C26_Witness ==
    /\ last = [op |-> "video_gallery_update", out |-> "201"]
    /\ \E g, h \in VideoGallery :
          g.user # h.user /\ g.gallery_name = h.gallery_name

\* C27: a request to create a gallery that fails because the directory of
\* the gallery exists already leaves the gallery table as it was.
C27_FailedCreateWritesNoRow ==
    \A kind \in Kinds, caller \in Callers, name \in GalleryNames :
        LET res == Handle([op |-> "gallery_create", kind |-> kind,
                           caller |-> caller, gallery_name |-> name])
        IN  res.out = "FileExistsError" => res.G = Galleries(kind)

\* C28: a sign_out by an authenticated caller with a refresh token that was
\* issued to another account does not put that token on the denylist.
C28_SignOutOnlyOwnToken ==
    \A caller \in {r.id : r \in User}, t \in outstanding :
        t.uid # caller =>
            t.jti \notin
                (SignOutView_create([caller |-> caller, refresh |-> t.jti]).blacklisted
                    \ blacklisted)

\* C29: a PATCH of the caller's own profile with a well-formed body that has
\* no username (and no email of another account) is answered with success,
\* writes the supplied fields and no other on the row, and leaves the
\* directories and the files as they were.
C29_PatchWithoutUsername ==
    \A req \in ProfileRequests :
        ( /\ req.caller = req.pk
          /\ ~Has(req.data, "username")
          /\ UserProfileSerializer_is_valid(req.data, TRUE)
          /\ Has(req.data, "email") =>
                \A r \in User : r.id # req.caller => r.email # req.data.email )
        => LET res == UserProfileView_update(req, TRUE)
               row == UserRow(req.caller)
           IN  /\ res.out = "200"
               /\ res.User = (User \ {row}) \cup {UpdatedRow(row, validated_data(req.data))}
               /\ res.dirs = dirs /\ res.files = files

\* C30: the rename of a gallery by its owner to the name the gallery has is
\* refused with the "already exists" validation error, and changes no row,
\* no directory and no file.
C30_RenameToOwnNameRefused ==
    \A kind \in Kinds :
      \A g \in Galleries(kind) :
        LET res == Handle(OwnerRename(kind, g, g.gallery_name))
        IN  res.out = "400 exists" /\ Untouched(kind, res)

\* A rename has just been refused for the name, and the only image gallery
\* there is already has, under its current name, its directory: the name it
\* was refused is its own.
C30_Witness ==
    /\ last = [op |-> "image_gallery_update", out |-> "400 exists"]
    /\ Cardinality(ImageGallery) = 1
    /\ \A g \in ImageGallery :
          isdir(GALLERY_PATH("image", UserRow(g.user).username, g.gallery_name), dirs, files)

=============================================================================
